---- MODULE Spec2Model ----
(***************************************************************************)
(* A model of the cache-aside remote-resource access layer of py-tmio:     *)
(* the Redis cache helpers, the aiohttp transport wrapper and the fetch    *)
(* operations built on them.                                               *)
(*                                                                         *)
(* The source tree mixes module revisions: some modules import _APIClient  *)
(* and _TMIO where api.py and the managers name them APIClient and TMIO,   *)
(* and api.py reads Client.user_agent where config.py declares             *)
(* Client.USER_AGENT.  The model reads each such pair as one name.         *)
(***************************************************************************)
EXTENDS Integers, Sequences, FiniteSets, TLC

(***************************************************************************)
(* Bounds of the model.                                                    *)
(***************************************************************************)
\* Origin requests that are explored in one run.
MaxRequests == 2

VARIABLES
    cache,                \* the Redis database: key -> [val, ex, exp]
    now,                  \* the clock, in seconds
    cacheUp,              \* whether the Redis server is reachable
    USER_AGENT,           \* Client.USER_AGENT
    RATELIMIT_REMAINING,  \* Client.RATELIMIT_REMAINING
    hdrRemaining,         \* x-ratelimit-remaining of the most recent response
    slept,                \* seconds slept by fetch operations so far
    requests,             \* origin requests sent so far
    fetched,              \* key -> [at, ex] of the last origin fetch of its document
    tmmap,                \* one TMMap object: [offset, length, lb_loaded]
    last,                 \* the most recent call, how it ended, the sessions it left open
    tasks,                \* the asyncio tasks: where each one is in its call
    input,                \* the argument a normalizer is applied to
    output                \* what the normalizer made of it

vars == <<cache, now, cacheUp, USER_AGENT, RATELIMIT_REMAINING, hdrRemaining,
          slept, requests, fetched, tmmap, last, tasks, input, output>>

(***************************************************************************)
(* Python values.  Every value is a record with a type field; a field      *)
(* name always holds values of one sort.                                   *)
(***************************************************************************)
PyNone == [type |-> "None"]
PyStr(s) == [type |-> "str", s |-> s]
\* A JSON object the origin serves for a resource; kind "error" is the
\* in-band error object {"error": ...}.
Doc(res, id, kind) == [type |-> "dict", res |-> res, id |-> id, kind |-> kind]
OkDoc(res, id) == Doc(res, id, "ok")
ErrDoc(res, id) == Doc(res, id, "error")
EmptyDict == Doc("", "", "empty")
\* A JSON array (the player search answers with one).
PyList(res, id, items) == [type |-> "list", res |-> res, id |-> id, items |-> items]
\* A body that is not JSON.
RawText(s) == [type |-> "text", s |-> s]
\* A normalized object, a list of them, a tuple of an object and its raw document.
Obj(cls, doc) == [type |-> "obj", cls |-> cls, doc |-> doc]
ObjList(cls, doc, n) == [type |-> "objlist", cls |-> cls, doc |-> doc, n |-> n]
ObjRaw(cls, doc) == [type |-> "objraw", cls |-> cls, doc |-> doc]

\* ex=None of redis SET: the key never expires.
NoExpiry == -1
\* Client.USER_AGENT = None
NoUserAgent == "None"
UserAgents == {NoUserAgent, "agent"}

(***************************************************************************)
(* JSON text as stored in Redis.                                           *)
(***************************************************************************)
\* json.dumps(value)
Dumps(v) == [type |-> "json", doc |-> v]
\* a str stored as it is
Bytes(s) == [type |-> "bytes", s |-> s]
\* json.loads: the stored text parses, or JSONDecodeError
IsJson(b) == b.type = "json"
Loads(b) == b.doc
\* bytes.decode("utf-8") of a plain string
Decode(b) == PyStr(b.s)

\* doc["error"] exists: the `with suppress(KeyError, TypeError): raise ...` idiom
\* raises only for a dict that has the key.
HasError(v) == v.type = "dict" /\ v.kind = "error"

(***************************************************************************)
(* The Redis client.                                                       *)
(***************************************************************************)
Entry(v, ex, t) == [val |-> v, ex |-> ex, exp |-> IF ex = NoExpiry THEN NoExpiry ELSE t + ex]
\* SET key value [EX ex]
RedisSet(c, key, v, ex, t) == (key :> Entry(v, ex, t)) @@ c
\* EXISTS key
RedisExists(c, key) == key \in DOMAIN c
\* keys whose TTL has not run out at time t
Live(c, t) == {k \in DOMAIN c : c[k].exp = NoExpiry \/ c[k].exp > t}
Expire(c, t) == [k \in Live(c, t) |-> c[k]]
EmptyCache == [k \in {} |-> Entry(Bytes(""), NoExpiry, 0)]

\* config.get_from_cache: None when the key is absent or Redis is unreachable
get_from_cache(c, up, key) ==
    IF up /\ RedisExists(c, key)
    THEN IF IsJson(c[key].val) THEN Loads(c[key].val) ELSE Decode(c[key].val)
    ELSE PyNone

\* config.set_in_cache: stores a str as it is, a dict as JSON text, and nothing
\* for any other value or when Redis is unreachable
set_in_cache(c, up, key, v, ex, t) ==
    IF ~up THEN c
    ELSE IF v.type = "str" THEN RedisSet(c, key, Bytes(v.s), ex, t)
    ELSE IF v.type = "dict" THEN RedisSet(c, key, Dumps(v), ex, t)
    ELSE c

\* cache_client.set(key, json.dumps(value), ex) under suppress(ConnectionError)
SetJson(c, up, key, v, ex, t) == IF up THEN RedisSet(c, key, Dumps(v), ex, t) ELSE c
\* cache_client.set(key, text) under suppress(ConnectionError)
SetStr(c, up, key, s, t) == IF up THEN RedisSet(c, key, Bytes(s), NoExpiry, t) ELSE c

(***************************************************************************)
(* The transport (api.py).                                                 *)
(***************************************************************************)
JsonType == "application/json"
\* x-ratelimit-remaining of the responses whose header the model does not vary
PlentyRemaining == 30
Response(status, ctype, body) ==
    [status |-> status, ctype |-> ctype, body |-> body, remaining |-> PlentyRemaining]

\* The outcome of a call: a returned value or a raised exception.
Returned(v) == [out |-> "returned", exc |-> "", val |-> v, status |-> 0, payload |-> PyNone]
Raised(e) == [out |-> "raised", exc |-> e, val |-> PyNone, status |-> 0, payload |-> PyNone]
\* ResponseCodeError.__init__: response_json or {}, response_text
ResponseCodeError(resp, response_json, response_text) ==
    [out |-> "raised", exc |-> "ResponseCodeError", val |-> PyNone,
     status |-> resp.status,
     payload |-> IF response_json # PyNone
                 THEN (IF response_json.type = "list" /\ response_json.items = <<>>
                       THEN EmptyDict ELSE response_json)
                 ELSE response_text]

\* aiohttp ClientResponse.json(): ContentTypeError unless the content type is
\* JSON, then json.loads of the body
response_json(resp) ==
    IF resp.ctype # JsonType THEN Raised("ContentTypeError")
    ELSE IF resp.body.type = "text" THEN Raised("JSONDecodeError")
    ELSE Returned(resp.body)

\* aiohttp ClientResponse.text()
response_text(resp) ==
    IF resp.body.type = "text" THEN resp.body ELSE RawText("json text")

\* APIClient.maybe_raise_for_status
maybe_raise_for_status(resp, should_raise) ==
    IF should_raise /\ resp.status >= 400
    THEN LET j == response_json(resp) IN
         IF j.out = "returned" THEN ResponseCodeError(resp, j.val, PyNone)
         ELSE IF j.exc = "ContentTypeError"
              THEN ResponseCodeError(resp, PyNone, response_text(resp))
              ELSE j
    ELSE Returned(PyNone)

\* APIClient.request
request(resp, raise_for_status) ==
    LET m == maybe_raise_for_status(resp, raise_for_status) IN
    IF m.out = "raised" THEN m ELSE response_json(resp)

\* a client that opens its session whatever the user agent
APIClientUnchecked(ua) == Returned(PyNone)
\* APIClient.__init__: no session without a user agent
APIClient(ua) == IF ua = NoUserAgent THEN Raised("NoUserAgentSetError") ELSE Returned(PyNone)

\* APIClient() followed by api_client.get(url): the outcome and whether the
\* request went out
api_get(ua, resp) ==
    LET a == APIClient(ua) IN
    IF a.out = "raised" THEN [o |-> a, sent |-> FALSE]
    ELSE [o |-> request(resp, TRUE), sent |-> TRUE]

(***************************************************************************)
(* The result of a fetch operation: the cache it leaves, how it ended, the *)
(* keys it tried to read and to write, and the URLs it requested.          *)
(***************************************************************************)
\* What APIClient.request raises: the status error, and what resp.json() raises.
RequestErrors == {"ResponseCodeError", "ContentTypeError", "JSONDecodeError"}
\* The sessions a call leaves open.  `await api_client.close()` is a statement
\* after the get and nothing catches what the get raises: the session of a
\* call that raised out of a request is never closed.
Unclosed(o, sn) ==
    IF sn # <<>> /\ o.out = "raised" /\ o.exc \in RequestErrors THEN 1 ELSE 0
Result(c, o, rd, wr, sn) ==
    [cache |-> c, out |-> o.out, exc |-> o.exc, val |-> o.val,
     status |-> o.status, payload |-> o.payload,
     reads |-> rd, writes |-> wr, sent |-> sn, open |-> Unclosed(o, sn)]
\* The result of a call that ended between APIClient() and close().
StillOpen(r) == [r EXCEPT !.open = 1]
Write(key, ex) == [key |-> key, ex |-> ex]
Sent(url, g) == IF g.sent THEN <<url>> ELSE <<>>

(***************************************************************************)
(* The origin (trackmania.io).                                             *)
(***************************************************************************)
\* Client.RATELIMIT_LIMIT
RATELIMIT_LIMIT == 40
\* Client.RATELIMIT_REMAINING = None, the header not seen yet
NoCount == -1

\* What the origin may answer to a request for a resource document.
OriginResponses(res, id) ==
    { Response(200, JsonType, OkDoc(res, id)),
      Response(200, JsonType, ErrDoc(res, id)),
      Response(404, JsonType, ErrDoc(res, id)),
      Response(500, "text/html", RawText("error page")) }

\* The players the origin knows, and str.lower() on the names in use.
PlayerIds == {"p1"}
DisplayName(player_id) == IF player_id = "p1" THEN "Alice" ELSE "Alan"
Usernames == {"", "Alice", "alice", "Al", "Zed"}
lower(s) ==
    CASE s = "Alice" -> "alice"
      [] s = "Alan"  -> "alan"
      [] s = "Al"    -> "al"
      [] s = "Zed"   -> "zed"
      [] OTHER       -> s
\* The players the search finds for a username.
SearchHits(username) ==
    CASE username \in {"Alice", "alice"} -> <<"p1">>
      [] username = "Al"                 -> <<"p2", "p1">>
      [] OTHER                           -> <<>>
SearchResponses(username) ==
    { Response(200, JsonType, PyList("players", username, SearchHits(username))),
      Response(200, JsonType, ErrDoc("players", username)),
      Response(500, "text/html", RawText("error page")) }

\* The TTLs the operations pass to the cache.
PlayerEx == 600
ListClubsEx == 43200
CampaignEx == 432000
TopMatchmakingEx == 3600
TopTrophiesEx == 10800
LatestTotdEx == 3600

(***************************************************************************)
(* managers/player_manager.py                                              *)
(***************************************************************************)
\* The keys of a player's cache entries.
PlayerDataKey(player_id) == player_id \o "|data"
\* the pair written by get_player
PlayerIdKeyWritten(name) == lower(name) \o ":id"
PlayerNameKeyWritten(player_id) == player_id \o ":username"
\* the pair read by to_account_id and to_username
AccountIdKey(username) == lower(username) \o "|id"
UsernameKey(player_id) == player_id \o "|username"

PlayerUrl(player_id) == "player/" \o player_id
SearchUrl(username) == "players/find?search=" \o username

\* _parse_player: data["displayname"] and the other required keys
ParsesAsPlayer(doc) == doc.type = "dict" /\ doc.kind = "ok" /\ doc.res = "player"
PlayerValue(doc, raw) == IF raw THEN ObjRaw("Player", doc) ELSE Obj("Player", doc)

get_player(c, up, ua, t, player_id, raw, resp) ==
    LET key == PlayerDataKey(player_id)
        url == PlayerUrl(player_id)
    IN
    IF player_id = "" THEN Result(c, Raised("InvalidIDError"), {}, {}, <<>>)
    ELSE IF up /\ RedisExists(c, key)
    THEN LET doc == Loads(c[key].val) IN
         IF ParsesAsPlayer(doc)
         THEN Result(c, Returned(PlayerValue(doc, raw)), {key}, {}, <<>>)
         ELSE Result(c, Raised("KeyError"), {key}, {}, <<>>)
    ELSE LET g == api_get(ua, resp) IN
         IF g.o.out = "raised" THEN Result(c, g.o, {key}, {}, Sent(url, g))
         ELSE IF ~ParsesAsPlayer(g.o.val)
         THEN Result(c, Raised("KeyError"), {key}, {}, Sent(url, g))
         ELSE LET doc  == g.o.val
                  name == DisplayName(doc.id)
                  c1 == SetJson(c, up, key, doc, PlayerEx, t)
                  c2 == SetStr(c1, up, PlayerIdKeyWritten(name), player_id, t)
                  c3 == SetStr(c2, up, PlayerNameKeyWritten(player_id), name, t)
                  \* the first set raises when Redis is unreachable
                  wr == IF up THEN { Write(key, PlayerEx),
                                     Write(PlayerIdKeyWritten(name), NoExpiry),
                                     Write(PlayerNameKeyWritten(player_id), NoExpiry) }
                        ELSE { Write(key, PlayerEx) }
              IN Result(c3, Returned(PlayerValue(doc, raw)), {key}, wr, Sent(url, g))

\* The value of a search: None, one PlayerSearchResult, or a list of them.
SearchValue(items) ==
    IF items = <<>> THEN PyNone ELSE [type |-> "search", items |-> items]

search_player(c, ua, username, resp) ==
    LET url == SearchUrl(username) IN
    IF username = "" THEN Result(c, Raised("InvalidUsernameError"), {}, {}, <<>>)
    ELSE LET g == api_get(ua, resp) IN
         IF g.o.out = "raised" THEN Result(c, g.o, {}, {}, Sent(url, g))
         ELSE IF HasError(g.o.val)
         THEN Result(c, Raised("InvalidUsernameError"), {}, {}, Sent(url, g))
         ELSE Result(c, Returned(SearchValue(g.o.val.items)), {}, {}, Sent(url, g))

\* The search runs inside the block that suppresses the Redis connection
\* errors: when EXISTS raises, the block is left and the function returns None.
to_account_id(c, up, ua, t, username, resp) ==
    LET key == AccountIdKey(username) IN
    IF ~up THEN Result(c, Returned(PyNone), {key}, {}, <<>>)
    ELSE IF RedisExists(c, key)
    THEN Result(c, Returned(Decode(c[key].val)), {key}, {}, <<>>)
    ELSE LET s == search_player(c, ua, username, resp) IN
         IF s.out = "raised" \/ s.val = PyNone
         THEN Result(c, s, {key}, {}, s.sent)
         ELSE LET found == s.val.items[1]
                  wkey  == lower(DisplayName(found)) \o "|id"
              IN Result(SetStr(c, up, wkey, found, t), Returned(PyStr(found)),
                        {key}, {Write(wkey, NoExpiry)}, s.sent)

to_username(c, up, ua, t, player_id, resp) ==
    LET key == UsernameKey(player_id) IN
    IF up /\ RedisExists(c, key)
    THEN Result(c, Returned(Decode(c[key].val)), {key}, {}, <<>>)
    ELSE LET p == get_player(c, up, ua, t, player_id, FALSE, resp) IN
         IF p.out = "raised"
         THEN Result(p.cache, p, {key} \cup p.reads, p.writes, p.sent)
         ELSE LET name == DisplayName(p.val.doc.id) IN
              Result(SetStr(p.cache, up, key, name, t), Returned(PyStr(name)),
                     {key} \cup p.reads, p.writes \cup {Write(key, NoExpiry)}, p.sent)

(***************************************************************************)
(* club.py, campaign.py, room.py, tmmap.py: documents fetched by id.       *)
(***************************************************************************)
\* The entries a list document holds ("clubs", "members", "ranks", "tops"):
\* an error object has none, .get(..., []) yields the empty list.
PageLength == 2
ItemCount(doc) == IF doc.kind = "ok" THEN PageLength ELSE 0

ClubKey(club_id) == "club:" \o ToString(club_id)
ClubUrl(club_id) == "club/" \o ToString(club_id)

\* Club.get_club: reads club:{id}, never writes it
get_club(c, up, ua, t, club_id, resp) ==
    LET key == ClubKey(club_id)
        url == ClubUrl(club_id)
        data == get_from_cache(c, up, key)
    IN
    IF club_id = 0 THEN Result(c, Returned(PyNone), {}, {}, <<>>)
    ELSE IF data # PyNone
    THEN Result(c, Returned(Obj("Club", data)), {key}, {}, <<>>)
    ELSE LET g == api_get(ua, resp) IN
         IF g.o.out = "raised" THEN Result(c, g.o, {key}, {}, Sent(url, g))
         ELSE IF HasError(g.o.val)
         THEN Result(c, Raised("TMIOException"), {key}, {}, Sent(url, g))
         ELSE Result(c, Returned(Obj("Club", g.o.val)), {key}, {}, Sent(url, g))

ClubsKey(page) == "clubs:" \o ToString(page)
ClubsUrl(page) == "clubs/" \o ToString(page) \o "?sort=popularity"

\* Club.list_clubs: no check of the "error" key
list_clubs(c, up, ua, t, page, resp) ==
    LET key == ClubsKey(page)
        url == ClubsUrl(page)
        data == get_from_cache(c, up, key)
    IN
    IF data # PyNone
    THEN Result(c, Returned(ObjList("Club", data, ItemCount(data))), {key}, {}, <<>>)
    ELSE LET g == api_get(ua, resp) IN
         IF g.o.out = "raised" THEN Result(c, g.o, {key}, {}, Sent(url, g))
         ELSE Result(set_in_cache(c, up, key, g.o.val, ListClubsEx, t),
                     Returned(ObjList("Club", g.o.val, ItemCount(g.o.val))),
                     {key}, {Write(key, ListClubsEx)}, Sent(url, g))

MembersKey(club_id, page) == "club_members:" \o ToString(club_id) \o ":" \o ToString(page)
MembersUrl(club_id, page) == "club/" \o ToString(club_id) \o "/members/" \o ToString(page)

\* Club.get_members: no check of the "error" key, no cache write
get_members(c, up, ua, t, club_id, page, resp) ==
    LET key == MembersKey(club_id, page)
        url == MembersUrl(club_id, page)
        data == get_from_cache(c, up, key)
    IN
    IF data # PyNone
    THEN Result(c, Returned(ObjList("ClubMember", data, ItemCount(data))), {key}, {}, <<>>)
    ELSE LET g == api_get(ua, resp) IN
         IF g.o.out = "raised" THEN Result(c, g.o, {key}, {}, Sent(url, g))
         ELSE Result(c, Returned(ObjList("ClubMember", g.o.val, ItemCount(g.o.val))),
                     {key}, {}, Sent(url, g))

CampaignKey(campaign_id, club_id) ==
    "campaign:" \o ToString(campaign_id) \o ":" \o ToString(club_id)
CampaignUrl(campaign_id, club_id) ==
    IF club_id # 0
    THEN "campaign/" \o ToString(club_id) \o "/" \o ToString(campaign_id)
    ELSE "officialcampaign/" \o ToString(campaign_id)

\* Campaign.get_campaign: no check of the "error" key; Campaign._from_dict
\* reads every field with .get and builds an object from any dict
get_campaign(c, up, ua, t, campaign_id, club_id, resp) ==
    LET key == CampaignKey(campaign_id, club_id)
        url == CampaignUrl(campaign_id, club_id)
        data == get_from_cache(c, up, key)
    IN
    IF data # PyNone
    THEN Result(c, Returned(Obj("Campaign", data)), {key}, {}, <<>>)
    ELSE LET g == api_get(ua, resp) IN
         IF g.o.out = "raised" THEN Result(c, g.o, {key}, {}, Sent(url, g))
         ELSE Result(set_in_cache(c, up, key, g.o.val, CampaignEx, t),
                     Returned(Obj("Campaign", g.o.val)),
                     {key}, {Write(key, CampaignEx)}, Sent(url, g))

RoomKey(club_id, room_id) == "room:" \o ToString(club_id) \o ":" \o ToString(room_id)
RoomUrl(club_id, room_id) == "room/" \o ToString(club_id) \o "/" \o ToString(room_id)

\* Room.get_room
get_room(c, up, ua, t, club_id, room_id, resp) ==
    LET key == RoomKey(club_id, room_id)
        url == RoomUrl(club_id, room_id)
        data == get_from_cache(c, up, key)
    IN
    IF data # PyNone
    THEN Result(c, Returned(Obj("Room", data)), {key}, {}, <<>>)
    ELSE LET g == api_get(ua, resp) IN
         IF g.o.out = "raised" THEN Result(c, g.o, {key}, {}, Sent(url, g))
         ELSE IF HasError(g.o.val)
         THEN Result(c, Raised("TMIOException"), {key}, {}, Sent(url, g))
         ELSE Result(set_in_cache(c, up, key, g.o.val, NoExpiry, t),
                     Returned(Obj("Room", g.o.val)),
                     {key}, {Write(key, NoExpiry)}, Sent(url, g))

MapKey(map_uid) == "map:" \o map_uid
MapUrl(map_uid) == "map/" \o map_uid

\* TMMap.get_map
get_map(c, up, ua, t, map_uid, resp) ==
    LET key == MapKey(map_uid)
        url == MapUrl(map_uid)
    IN
    IF up /\ RedisExists(c, key)
    THEN Result(c, Returned(Obj("TMMap", Loads(c[key].val))), {key}, {}, <<>>)
    ELSE LET g == api_get(ua, resp) IN
         IF g.o.out = "raised" THEN Result(c, g.o, {key}, {}, Sent(url, g))
         ELSE IF HasError(g.o.val)
         THEN Result(c, Raised("TMIOException"), {key}, {}, Sent(url, g))
         ELSE Result(SetJson(c, up, key, g.o.val, NoExpiry, t),
                     Returned(Obj("TMMap", g.o.val)),
                     {key}, {Write(key, NoExpiry)}, Sent(url, g))

(***************************************************************************)
(* Rankings: matchmaking and trophy pages, map and campaign leaderboards.  *)
(***************************************************************************)
MatchmakingKey(group, page) == "matchmaking|" \o ToString(group) \o "|" \o ToString(page)
MatchmakingUrl(group, page) == "top/matchmaking/" \o ToString(group) \o "/" \o ToString(page)

\* player_manager.top_matchmaking: returns the raw document
top_matchmaking(c, up, ua, t, group, page, resp) ==
    LET key == MatchmakingKey(group, page)
        url == MatchmakingUrl(group, page)
    IN
    IF group \notin {2, 3} THEN Result(c, Raised("InvalidMatchmakingGroupError"), {}, {}, <<>>)
    ELSE IF page < 0 THEN Result(c, Raised("ValueError"), {}, {}, <<>>)
    ELSE IF up /\ RedisExists(c, key)
    THEN Result(c, Returned(Loads(c[key].val)), {key}, {}, <<>>)
    ELSE LET g == api_get(ua, resp) IN
         IF g.o.out = "raised" THEN Result(c, g.o, {key}, {}, Sent(url, g))
         ELSE Result(SetJson(c, up, key, g.o.val, TopMatchmakingEx, t), Returned(g.o.val),
                     {key}, {Write(key, TopMatchmakingEx)}, Sent(url, g))

TrophiesKey(page) == "trophies|" \o ToString(page)
TrophiesUrl(page) == "top/trophies/" \o ToString(page)

\* player_manager.top_trophies: returns the raw document
top_trophies(c, up, ua, t, page, resp) ==
    LET key == TrophiesKey(page)
        url == TrophiesUrl(page)
    IN
    IF page < 0 THEN Result(c, Raised("ValueError"), {}, {}, <<>>)
    ELSE IF up /\ RedisExists(c, key)
    THEN Result(c, Returned(Loads(c[key].val)), {key}, {}, <<>>)
    ELSE LET g == api_get(ua, resp) IN
         IF g.o.out = "raised" THEN Result(c, g.o, {key}, {}, Sent(url, g))
         ELSE Result(SetJson(c, up, key, g.o.val, TopTrophiesEx, t), Returned(g.o.val),
                     {key}, {Write(key, TopTrophiesEx)}, Sent(url, g))

\* str(bool)
BoolStr(b) == IF b THEN "True" ELSE "False"
TopKey(page, royal) == "top_matchmaking:" \o ToString(page) \o ":" \o BoolStr(royal)
TopUrl(page, royal) ==
    IF royal THEN "top/matchmaking/3/" \o ToString(page)
    ELSE "top/matchmaking/2/" \o ToString(page)

\* matchmaking._get_top_matchmaking
get_top_matchmaking(c, up, ua, t, page, royal, resp) ==
    LET key == TopKey(page, royal)
        url == TopUrl(page, royal)
        data == get_from_cache(c, up, key)
    IN
    IF data # PyNone
    THEN Result(c, Returned(ObjList("MatchmakingLeaderboardPlayer", data, ItemCount(data))),
                {key}, {}, <<>>)
    ELSE LET g == api_get(ua, resp) IN
         IF g.o.out = "raised" THEN Result(c, g.o, {key}, {}, Sent(url, g))
         ELSE IF HasError(g.o.val)
         THEN Result(c, Raised("TMIOException"), {key}, {}, Sent(url, g))
         ELSE Result(set_in_cache(c, up, key, g.o.val, TopMatchmakingEx, t),
                     Returned(ObjList("MatchmakingLeaderboardPlayer", g.o.val, ItemCount(g.o.val))),
                     {key}, {Write(key, TopMatchmakingEx)}, Sent(url, g))

\* The map object of the model.
MapUid == "uid1"
Min(a, b) == IF a < b THEN a ELSE b
LeaderboardKey(uid, offset, length) ==
    "leaderboard:" \o uid \o ":" \o ToString(offset) \o ":" \o ToString(length)
LeaderboardUrl(uid, offset, length) ==
    "leaderboard/map/" \o uid \o "?offset=" \o ToString(offset)
        \o "&length=" \o ToString(length)

\* TMMap.get_leaderboard: the result and the map object it leaves
get_leaderboard(c, up, ua, t, self, offset, length, resp) ==
    LET len == Min(length, 100)
        key == LeaderboardKey(MapUid, offset, len)
        url == LeaderboardUrl(MapUid, offset, len)
        set == [self EXCEPT !.offset = offset, !.length = len]
    IN
    IF length < 1
    THEN [r |-> Result(c, Raised("ValueError"), {}, {}, <<>>), self |-> self]
    ELSE IF up /\ RedisExists(c, key)
    THEN [r |-> Result(c, Returned(ObjList("Leaderboard", Loads(c[key].val),
                                           ItemCount(Loads(c[key].val)))), {key}, {}, <<>>),
          self |-> set]
    ELSE LET g == api_get(ua, resp) IN
         IF g.o.out = "raised"
         THEN [r |-> Result(c, g.o, {key}, {}, Sent(url, g)), self |-> set]
         ELSE IF HasError(g.o.val)
         THEN [r |-> Result(c, Raised("TMIOException"), {key}, {}, Sent(url, g)), self |-> set]
         ELSE [r |-> Result(SetJson(c, up, key, g.o.val, NoExpiry, t),
                            Returned(ObjList("Leaderboard", g.o.val, ItemCount(g.o.val))),
                            {key}, {Write(key, NoExpiry)}, Sent(url, g)),
               self |-> [offset |-> offset + len, length |-> len, lb_loaded |-> TRUE]]

\* What load_more_leaderboard asks the origin for when it asks: the default
\* offset of get_leaderboard while nothing was loaded, self._offset after
LoadMoreOffset(self) == IF self.lb_loaded THEN self.offset ELSE 0
LoadMoreLength(self, length) == IF self.lb_loaded THEN length ELSE Min(length, 100)

\* TMMap.load_more_leaderboard: the key is made of self.offset and
\* self.length, the request of self._offset and the argument
load_more_leaderboard(c, up, ua, t, self, length, resp) ==
    LET key == LeaderboardKey(MapUid, self.offset, self.length)
        url == LeaderboardUrl(MapUid, self.offset, length)
    IN
    IF up /\ RedisExists(c, key)
    THEN [r |-> Result(c, Returned(ObjList("Leaderboard", Loads(c[key].val),
                                           ItemCount(Loads(c[key].val)))), {key}, {}, <<>>),
          self |-> self]
    ELSE IF ~self.lb_loaded
    THEN LET g == get_leaderboard(c, up, ua, t, self, 0, length, resp) IN
         [r |-> [g.r EXCEPT !.reads = {key} \cup g.r.reads], self |-> g.self]
    ELSE LET g == api_get(ua, resp) IN
         IF g.o.out = "raised"
         THEN [r |-> Result(c, g.o, {key}, {}, Sent(url, g)), self |-> self]
         ELSE IF HasError(g.o.val)
         THEN [r |-> Result(c, Raised("TMIOException"), {key}, {}, Sent(url, g)), self |-> self]
         ELSE [r |-> Result(SetJson(c, up, key, g.o.val, NoExpiry, t),
                            Returned(ObjList("Leaderboard", g.o.val, ItemCount(g.o.val))),
                            {key}, {Write(key, NoExpiry)}, Sent(url, g)),
               self |-> [self EXCEPT !.offset = self.offset + length, !.lb_loaded = TRUE]]

\* The campaign object of the model.
CampaignId == 7
CampaignLeaderboardKey(campaign_id, offset, length) ==
    "campaign:" \o ToString(campaign_id) \o ":" \o ToString(offset) \o ":" \o ToString(length)
CampaignLeaderboardUrl(offset, length) ==
    "leaderboard/lbuid?offset=" \o ToString(offset) \o "&length=" \o ToString(length)

\* Campaign.leaderboards
leaderboards(c, up, ua, t, offset, length, resp) ==
    LET key == CampaignLeaderboardKey(CampaignId, offset, length)
        url == CampaignLeaderboardUrl(offset, length)
        data == get_from_cache(c, up, key)
    IN
    IF data # PyNone
    THEN Result(c, Returned(ObjList("CampaignLeaderboard", data, ItemCount(data))),
                {key}, {}, <<>>)
    ELSE LET g == api_get(ua, resp) IN
         IF g.o.out = "raised" THEN Result(c, g.o, {key}, {}, Sent(url, g))
         ELSE IF HasError(g.o.val)
         THEN Result(c, Raised("TMIOException"), {key}, {}, Sent(url, g))
         ELSE Result(set_in_cache(c, up, key, g.o.val, CampaignEx, t),
                     Returned(ObjList("CampaignLeaderboard", g.o.val, ItemCount(g.o.val))),
                     {key}, {Write(key, CampaignEx)}, Sent(url, g))

(***************************************************************************)
(* managers/totd_manager.py and managers/cotd_manager.py                   *)
(***************************************************************************)
\* datetime.utcnow().hour and .minute; the clock starts at midnight UTC
UtcHour(t) == (t \div 3600) % 24
UtcMinute(t) == (t \div 60) % 60

LatestTotdKey == "latest_totd"
TotdUrl == "totd/0"
TotdLeaderboardUrl == "leaderboard/map/totduid?offset=0&length=100"
\* latest_totd["days"][-1] with its "leaderboard" entry
TotdDay(leaderboard_flag) ==
    OkDoc("totd", IF leaderboard_flag THEN "latest with leaderboard" ELSE "latest")
\* the condition under which latest_totd writes its document
TotdCacheable(hour, minute) ==
    ~((hour > 17 /\ minute > 0) /\ (hour < 18 /\ minute < 0))

\* totd_manager.latest_totd
latest_totd(c, up, ua, t, leaderboard_flag, resp, lbresp) ==
    LET key == LatestTotdKey
        a == APIClient(ua)
        month == request(resp, TRUE)
        lb == request(lbresp, TRUE)
        sent == IF leaderboard_flag THEN <<TotdUrl, TotdLeaderboardUrl>> ELSE <<TotdUrl>>
        day == TotdDay(leaderboard_flag)
        cacheable == TotdCacheable(UtcHour(t), UtcMinute(t))
    IN
    IF up /\ RedisExists(c, key)
    THEN Result(c, Returned(Obj("TOTD", Loads(c[key].val))), {key}, {}, <<>>)
    ELSE IF a.out = "raised" THEN Result(c, a, {key}, {}, <<>>)
    ELSE IF month.out = "raised" THEN Result(c, month, {key}, {}, <<TotdUrl>>)
    ELSE IF month.val.type # "dict" \/ month.val.kind # "ok"
    THEN StillOpen(Result(c, Raised("KeyError"), {key}, {}, <<TotdUrl>>))
    ELSE IF leaderboard_flag /\ lb.out = "raised" THEN Result(c, lb, {key}, {}, sent)
    ELSE IF leaderboard_flag /\ (lb.val.type # "dict" \/ lb.val.kind # "ok")
    THEN StillOpen(Result(c, Raised("KeyError"), {key}, {}, sent))
    ELSE Result(IF cacheable THEN SetJson(c, up, key, day, LatestTotdEx, t) ELSE c,
                Returned(Obj("TOTD", day)), {key},
                IF cacheable THEN {Write(key, LatestTotdEx)} ELSE {}, sent)

CotdKey(player_id, page) == player_id \o "|cotd|" \o ToString(page)
CotdUrl(player_id, page) == "player/" \o player_id \o "/cotd/" \o ToString(page)

\* cotd_manager.get_player_cotd: the page is cached before it is parsed, and
\* nothing reads Client.RATELIMIT_REMAINING or sleeps
get_player_cotd(c, up, ua, t, player_id, page, resp) ==
    LET key == CotdKey(player_id, page)
        url == CotdUrl(player_id, page)
    IN
    IF page < 0 THEN Result(c, Raised("ValueError"), {}, {}, <<>>)
    ELSE IF up /\ RedisExists(c, key)
    THEN (IF Loads(c[key].val).kind = "ok"
          THEN Result(c, Returned(Obj("PlayerCOTD", Loads(c[key].val))), {key}, {}, <<>>)
          ELSE Result(c, Raised("KeyError"), {key}, {}, <<>>))
    ELSE LET g == api_get(ua, resp) IN
         IF g.o.out = "raised" THEN Result(c, g.o, {key}, {}, Sent(url, g))
         ELSE LET c1 == SetJson(c, up, key, g.o.val, NoExpiry, t) IN
              IF g.o.val.kind = "ok"
              THEN Result(c1, Returned(Obj("PlayerCOTD", g.o.val)),
                          {key}, {Write(key, NoExpiry)}, Sent(url, g))
              ELSE Result(c1, Raised("KeyError"), {key}, {Write(key, NoExpiry)}, Sent(url, g))

\* The seconds get_player_cotd sleeps before a page request.
CotdSleep(remaining) == 0

(***************************************************************************)
(* PlayerTrophies.history (trophy.py).  The object carries the player's id *)
(* or None when none was given to it.                                      *)
(***************************************************************************)
\* self.player_id of an object built without an id
NoPlayerId == "None"
TrophyHistoryEx == 3600
\* the key holds the page and nothing of the player
TrophyHistoryKey(page) == "trophy:" \o ToString(page)
TrophyHistoryUrl(player_id, page) ==
    "player/" \o player_id \o "/trophies/" \o ToString(page)
\* history["gains"] of a document
Gains(doc) == [type |-> "gains", doc |-> doc]

\* PlayerTrophies.history: the cache is read first, then the client is
\* built, and only then is self.player_id looked at
history(c, up, ua, t, player_id, page, resp) ==
    LET key == TrophyHistoryKey(page)
        url == TrophyHistoryUrl(player_id, page)
    IN
    IF up /\ RedisExists(c, key)
    THEN (IF Loads(c[key].val).kind = "ok"
          THEN Result(c, Returned(Gains(Loads(c[key].val))), {key}, {}, <<>>)
          ELSE Result(c, Raised("KeyError"), {key}, {}, <<>>))
    ELSE LET a == APIClient(ua) IN
         IF a.out = "raised" THEN Result(c, a, {key}, {}, <<>>)
         ELSE IF player_id = NoPlayerId
         THEN StillOpen(Result(c, Raised("InvalidIDError"), {key}, {}, <<>>))
         ELSE LET o == request(resp, TRUE) IN
              IF o.out = "raised" THEN Result(c, o, {key}, {}, <<url>>)
              ELSE IF HasError(o.val)
              THEN Result(c, Raised("TMIOException"), {key}, {}, <<url>>)
              ELSE LET c1 == SetJson(c, up, key, o.val, TrophyHistoryEx, t) IN
                   IF o.val.kind = "ok"
                   THEN Result(c1, Returned(Gains(o.val)),
                               {key}, {Write(key, TrophyHistoryEx)}, <<url>>)
                   ELSE Result(c1, Raised("KeyError"),
                               {key}, {Write(key, TrophyHistoryEx)}, <<url>>)

(***************************************************************************)
(* PlayerMatchmaking (matchmaking.py) and the player document's            *)
(* "matchmaking" array.  An element of the array is the record of its      *)
(* "typeid", "score" and division "minpoints" and "maxpoints".  Progress   *)
(* is a float with two decimals: the model holds it in hundredths.         *)
(***************************************************************************)
\* a / b with the digits after the point cut off
RoundTowardsZero(a, b) ==
    LET n == IF b < 0 THEN -a ELSE a
        d == IF b < 0 THEN -b ELSE b
    IN  IF n >= 0 THEN n \div d ELSE -((-n) \div d)
\* round(): the nearest integer to a / b, a tie going to the even one
RoundHalfEven(a, b) ==
    LET n == IF b < 0 THEN -a ELSE a
        d == IF b < 0 THEN -b ELSE b
        q == n \div d
        r == n - q * d
    IN  IF 2 * r < d THEN q
        ELSE IF 2 * r > d THEN q + 1
        ELSE IF q % 2 = 0 THEN q ELSE q + 1

\* round((score - min_points) / (max_points - min_points) * 100, 2), in
\* hundredths; ZeroDivisionError gives 0
Progress(score, min_points, max_points) ==
    IF max_points - min_points = 0 THEN 0
    ELSE RoundHalfEven(10000 * (score - min_points), max_points - min_points)

\* PlayerMatchmaking.__init__
PlayerMatchmaking(type_id, score, min_points, max_points) ==
    [type |-> "PlayerMatchmaking", type_id |-> type_id, score |-> score,
     min_points |-> min_points, max_points |-> IF max_points = 0 THEN 1 ELSE max_points,
     progress |-> Progress(score, min_points, max_points)]

\* PlayerMatchmaking.__parse_3v3 and player_manager.__parse_3v3
parse_3v3(data) ==
    PlayerMatchmaking(data.typeid, data.score, data.minpoints, data.maxpoints)

\* PlayerMatchmaking._from_dict: [3v3 slot, Royal slot]
PlayerMatchmaking_from_dict(mm_data) ==
    IF Len(mm_data) = 0 THEN <<PyNone, PyNone>>
    ELSE IF Len(mm_data) = 1
    THEN LET mm_obj == parse_3v3(mm_data[1]) IN
         IF mm_obj.type_id = 2 THEN <<mm_obj, PyNone>> ELSE <<PyNone, mm_obj>>
    ELSE <<parse_3v3(mm_data[1]), parse_3v3(mm_data[2])>>

\* player_manager.__parse_matchmaking: IndexError leaves None in the slot
parse_matchmaking(data) ==
    << IF Len(data) >= 1 THEN parse_3v3(data[1]) ELSE PyNone,
       IF Len(data) >= 2 THEN parse_3v3(data[2]) ELSE PyNone >>

(***************************************************************************)
(* The zone chain of a player document: `levels` nested zones, the         *)
(* innermost first, each below the "parent" key of the one before, each    *)
(* holding a "flag" and its name under the key `key`; zone_positions is    *)
(* the array of the player's ranks.                                        *)
(***************************************************************************)
ZoneDoc(levels, key) == [levels |-> levels, key |-> key]
\* a rank of None
NoRank == -1
PlayerZone(level, rank) == [type |-> "PlayerZone", level |-> level, rank |-> rank]
ZoneList(items) == [type |-> "list", items |-> items]

\* PlayerZone._parse_zones (player.py): walks the chain while the level has
\* a "zone" key and indexes zone_positions at every level
PlayerZone_parse_zones(zones, zone_positions) ==
    IF zones.levels = 0 \/ zones.key # "zone" THEN Returned(ZoneList(<<>>))
    ELSE IF Len(zone_positions) < zones.levels THEN Raised("IndexError")
    ELSE Returned(ZoneList([i \in 1..zones.levels |-> PlayerZone(i, zone_positions[i])]))

\* player_manager._parse_zones: as many levels as there are ranks, when
\* there are 3, 4 or 5 of them
parse_zones(zones, zone_positions) ==
    LET n == Len(zone_positions) IN
    IF n \notin {3, 4, 5} THEN Returned(PyNone)
    ELSE IF zones.levels < n \/ zones.key # "name" THEN Raised("KeyError")
    ELSE Returned(ZoneList([i \in 1..n |-> PlayerZone(i, zone_positions[i])]))

(***************************************************************************)
(* Timestamps.  A timestamp text is the sequence of its fields and of the  *)
(* literal characters between them; a strptime format is the sequence of   *)
(* its directives and literals.                                            *)
(***************************************************************************)
Lit(s) == [k |-> "lit", s |-> s, n |-> 0]
Field(k, n) == [k |-> k, s |-> "", n |-> n]
\* a directive of a format
Dir(k) == [k |-> k, s |-> "", n |-> 0]

\* the five formats of _frmt_str_to_datetime, in its order
FormatZ ==
    <<Dir("%Y-%m-%d"), Lit("T"), Dir("%H"), Lit(":"), Dir("%M"), Lit(":"), Dir("%S"), Lit("Z")>>
FormatOffset ==
    <<Dir("%Y-%m-%d"), Lit("T"), Dir("%H"), Lit(":"), Dir("%M"), Lit(":"), Dir("%S"),
      Lit("+00:00")>>
FormatFraction ==
    <<Dir("%Y-%m-%d"), Lit("T"), Dir("%H"), Lit(":"), Dir("%M"), Lit(":"), Dir("%S"),
      Lit("."), Dir("%f")>>
FormatSeconds ==
    <<Dir("%Y-%m-%d"), Lit("T"), Dir("%H"), Lit(":"), Dir("%M"), Lit(":"), Dir("%S")>>
FormatBuild ==
    <<Dir("%Y-%m-%d"), Lit("_"), Dir("%H"), Lit("_"), Dir("%M")>>
formats == <<FormatZ, FormatOffset, FormatFraction, FormatSeconds, FormatBuild>>

\* python's None where a str is expected, and a str
NoText == [present |-> FALSE, text |-> <<>>]
Text(tokens) == [present |-> TRUE, text |-> tokens]

\* the field of a text that a directive of the format consumed, 0 when the
\* format has no such directive
FieldOf(text, fmt, k) ==
    IF \E i \in 1..Len(fmt) : fmt[i].k = k
    THEN text[CHOOSE i \in 1..Len(fmt) : fmt[i].k = k].n
    ELSE 0
DateTime(day, hour, minute, second, microsecond) ==
    [type |-> "datetime", day |-> day, hour |-> hour, minute |-> minute,
     second |-> second, microsecond |-> microsecond]

\* datetime.strptime(date_string, fmt): TypeError for None, ValueError when
\* the text does not match the format or goes on after it
strptime(date_string, fmt) ==
    IF ~date_string.present THEN Raised("TypeError")
    ELSE LET text == date_string.text IN
         IF /\ Len(text) = Len(fmt)
            /\ \A i \in 1..Len(fmt) :
                   /\ text[i].k = fmt[i].k
                   /\ fmt[i].k = "lit" => text[i].s = fmt[i].s
         THEN Returned(DateTime(FieldOf(text, fmt, "%Y-%m-%d"), FieldOf(text, fmt, "%H"),
                                FieldOf(text, fmt, "%M"), FieldOf(text, fmt, "%S"),
                                FieldOf(text, fmt, "%f")))
         ELSE Raised("ValueError")

\* _util._frmt_str_to_datetime: the first format that parses, else None
RECURSIVE TryFormats(_, _)
TryFormats(date_string, i) ==
    IF i > Len(formats) THEN Returned(PyNone)
    ELSE LET o == strptime(date_string, formats[i]) IN
         IF o.out = "raised" /\ o.exc = "ValueError" THEN TryFormats(date_string, i + 1)
         ELSE o
frmt_str_to_datetime(date_string) ==
    IF ~date_string.present THEN Returned(PyNone) ELSE TryFormats(date_string, 1)

\* Leaderboard._from_dict, TMMap._from_dict and PlayerTrophies._from_dict:
\* raw.get("timestamp") goes to strptime with the one format
Normalized(cls, timestamp) == [type |-> cls, timestamp |-> timestamp]
from_dict(cls, timestamp) ==
    LET o == strptime(timestamp, FormatOffset) IN
    IF o.out = "raised" THEN o ELSE Returned(Normalized(cls, o.val))

(***************************************************************************)
(* _util._regex_it: re.sub(REGEX, "", text).  A text is the sequence of    *)
(* its characters.  A match of REGEX starts at a "$" that no "$" precedes  *)
(* and is either an even run of "$", or an odd run of "$" and the code     *)
(* that follows its last "$"; the search goes from left to right.          *)
(***************************************************************************)
\* [a-f\d], [ionmwsztg<>] and [lhp], with (?i)
HexChars ==
    {"a", "b", "c", "d", "e", "f", "A", "B", "C", "D", "E", "F",
     "0", "1", "2", "3", "4", "5", "6", "7", "8", "9"}
StyleChars ==
    {"i", "o", "n", "m", "w", "s", "z", "t", "g", "<", ">",
     "I", "O", "N", "M", "W", "S", "Z", "T", "G"}
LinkChars == {"l", "h", "p", "L", "H", "P"}

\* \$+ from position i
RECURSIVE RunLength(_, _)
RunLength(s, i) ==
    IF i > Len(s) \/ s[i] # "$" THEN 0 ELSE 1 + RunLength(s, i + 1)
\* [a-f\d]{1,3} from position j, n of them taken already
RECURSIVE HexLength(_, _, _)
HexLength(s, j, n) ==
    IF n < 3 /\ j <= Len(s) /\ s[j] \in HexChars THEN HexLength(s, j + 1, n + 1) ELSE n
\* the first "]" from position k on, 0 when there is none
RECURSIVE ClosingBracket(_, _)
ClosingBracket(s, k) ==
    IF k > Len(s) THEN 0
    ELSE IF s[k] = "]" THEN k ELSE ClosingBracket(s, k + 1)
\* (\[[^\]]+\])? from position j: its length
LinkTarget(s, j) ==
    IF j + 1 <= Len(s) /\ s[j] = "[" /\ s[j + 1] # "]" /\ ClosingBracket(s, j + 2) # 0
    THEN ClosingBracket(s, j + 2) - j + 1
    ELSE 0
\* ([a-f\d]{1,3}|[ionmwsztg<>]|[lhp](\[[^\]]+\])?) from position j: the
\* length of the code, 0 when there is none
CodeLength(s, j) ==
    IF j > Len(s) THEN 0
    ELSE IF s[j] \in HexChars THEN HexLength(s, j, 0)
    ELSE IF s[j] \in StyleChars THEN 1
    ELSE IF s[j] \in LinkChars THEN 1 + LinkTarget(s, j + 1)
    ELSE 0

Dollars(r) == [i \in 1..r |-> "$"]
\* what the substitution leaves of a matched even run of r "$", were "$$"
\* an escaped "$"
EscapedDollar(r) == IF r > 0 THEN <<"$">> ELSE <<>>
\* what the substitution leaves of a matched even run of r "$": SUBST
SUBST(r) == <<>>

\* re.sub from position i on
RECURSIVE Sub(_, _)
Sub(s, i) ==
    IF i > Len(s) THEN <<>>
    ELSE IF s[i] # "$" THEN <<s[i]>> \o Sub(s, i + 1)
    ELSE LET r == RunLength(s, i)
             j == i + r
         IN  IF r % 2 = 0 THEN SUBST(r) \o Sub(s, j)
             ELSE IF CodeLength(s, j) > 0 THEN Sub(s, j + CodeLength(s, j))
             ELSE Dollars(r) \o Sub(s, j)

regex_it(text) == IF ~text.present THEN NoText ELSE Text(Sub(text.text, 1))

(***************************************************************************)
(* PlayerTrophies.trophy and PlayerTrophies.score.  trophies is the list   *)
(* of the counts by tier, the first tier first.                            *)
(***************************************************************************)
PyInt(n) == [type |-> "int", n |-> n]

\* PlayerTrophies.trophy(number), the count itself
trophy(trophies, number) == trophies[number]

\* PlayerTrophies.score of trophy.py: nine terms
score(trophies) ==
    0 + trophy(trophies, 1) * 1
      + trophy(trophies, 2) * 10
      + trophy(trophies, 3) * 100
      + trophy(trophies, 4) * 1000
      + trophy(trophies, 5) * 10000
      + trophy(trophies, 6) * 100000
      + trophy(trophies, 7) * 1000000
      + trophy(trophies, 8) * 10000000
      + trophy(trophies, 9) * 100000000

\* PlayerTrophies.score of player.py and of structures/player.py: eight
\* terms
score_of_player(trophies) ==
    0 + trophy(trophies, 1) * 1
      + trophy(trophies, 2) * 10
      + trophy(trophies, 3) * 100
      + trophy(trophies, 4) * 1000
      + trophy(trophies, 5) * 10000
      + trophy(trophies, 6) * 100000
      + trophy(trophies, 7) * 1000000
      + trophy(trophies, 8) * 10000000

(***************************************************************************)
(* The names and tags the normalizers expose.  raw holds the document's    *)
(* name (of the map, of its author and submitter, of the player) and the   *)
(* player's club tag, NoText when the document has none.                   *)
(***************************************************************************)
\* TMMap._from_dict: name and author name go through _regex_it, the
\* submitter's name does not
MapText(raw) ==
    [type |-> "TMMap",
     text |-> [name |-> regex_it(raw.name), author_name |-> regex_it(raw.name),
               submitter_name |-> raw.name]]
\* Leaderboard._from_dict
LeaderboardText(raw) ==
    [type |-> "Leaderboard",
     text |-> [player_name |-> raw.name, player_club_tag |-> regex_it(raw.tag)]]
\* MatchmakingLeaderboardPlayer._from_dict
RankingText(raw) ==
    [type |-> "MatchmakingLeaderboardPlayer",
     text |-> [player_name |-> raw.name, player_tag |-> regex_it(raw.tag)]]
\* player_manager._parse_player: displayname and clubtag as they are
PlayerText(raw) ==
    [type |-> "Player",
     text |-> [name |-> raw.name, login |-> raw.name, club_tag |-> raw.tag]]

(***************************************************************************)
(* MedalTimes: the medal time in milliseconds as a string of characters.   *)
(***************************************************************************)
DigitChars == <<"0", "1", "2", "3", "4", "5", "6", "7", "8", "9">>
\* "%d" % n for n >= 0
RECURSIVE Decimal(_)
Decimal(n) ==
    IF n < 10 THEN <<DigitChars[n + 1]>> ELSE Decimal(n \div 10) \o <<DigitChars[(n % 10) + 1]>>
\* "%0{width}d" % n: zeros in front up to the width
RECURSIVE Padded(_, _)
Padded(digits, width) ==
    IF Len(digits) >= width THEN digits ELSE Padded(<<"0">> \o digits, width)

\* MedalTimes._parse_to_string of tmmap.py and MedalTimes._format_seconds:
\* divmod(time, 1000), then divmod(sec, 60)
parse_to_string(time) ==
    LET sec == time \div 1000
        ms == time % 1000
    IN  Padded(Decimal(sec \div 60), 1) \o <<":">> \o Padded(Decimal(sec % 60), 2)
            \o <<".">> \o Padded(Decimal(ms), 3)
\* MedalTimes._parse_to_string of map.py: divmod(time, 1000), then
\* divmod(time, 60)
parse_to_string_of_map(time) ==
    LET ms == time % 1000
    IN  Padded(Decimal(time \div 60), 2) \o <<":">> \o Padded(Decimal(time % 60), 2)
            \o <<".">> \o Padded(Decimal(ms), 3)

(***************************************************************************)
(* The optional fields of a player document.  data holds, for each         *)
(* optional key, its value or Absent; "meta" holds the meta object or      *)
(* Absent, "matchmaking" the array of the records.                         *)
(***************************************************************************)
Absent == [type |-> "absent"]
PyBool(b) == [type |-> "bool", b |-> b]
\* try: metadata[key] except KeyError: default
OrDefault(v, default) == IF v = Absent THEN default ELSE v

\* player_manager._parse_meta: a try block for each key, one block for
\* "sponsor" and "sponsorlevel" together
parse_meta(metadata) ==
    LET both == metadata.sponsor # Absent /\ metadata.sponsorlevel # Absent IN
    [type |-> "PlayerMetaInfo",
     twitter |-> OrDefault(metadata.twitter, PyNone),
     twitch |-> OrDefault(metadata.twitch, PyNone),
     is_sponsor |-> IF both THEN metadata.sponsor ELSE PyBool(FALSE),
     sponsor_level |-> IF both THEN metadata.sponsorlevel ELSE PyInt(0),
     in_nadeo |-> OrDefault(metadata.nadeo, PyBool(FALSE))]

\* the optional fields in player_manager._parse_player: one try block for
\* "clubtag" and "clubtagtimestamp" together, one for "meta"
parse_player(data) ==
    LET both == data.clubtag # Absent /\ data.clubtagtimestamp # Absent
        player_mm_data == parse_matchmaking(data.matchmaking)
    IN  Returned([type |-> "Player",
                  club_tag |-> IF both THEN data.clubtag ELSE PyNone,
                  last_club_tag_change |-> IF both THEN data.clubtagtimestamp ELSE PyNone,
                  meta |-> IF data.meta = Absent THEN PyNone ELSE parse_meta(data.meta),
                  m3v3_data |-> player_mm_data[1],
                  royal_data |-> player_mm_data[2]])

\* util/player_parsers.parse_player: its _parse_matchmaking reads data[0]
\* and data[1] and catches KeyError only
parse_player_of_util(data) ==
    IF Len(data.matchmaking) < 2 THEN Raised("IndexError") ELSE parse_player(data)

(***************************************************************************)
(* The campaign lists (campaign.py) and the tracks of a month              *)
(* (totd_manager.py).  A campaigns document carries its "campaigns"        *)
(* array, an element being the record of its "id" and "clubid".            *)
(***************************************************************************)
CampaignsDoc(page, campaigns) ==
    [type |-> "dict", res |-> "campaigns", id |-> ToString(page), kind |-> "ok",
     campaigns |-> campaigns]
\* all_campaigns.get("campaigns", [])
CampaignsOf(doc) == IF "campaigns" \in DOMAIN doc THEN doc.campaigns ELSE <<>>
\* the list of CampaignSearchResult objects made of the elements
SearchResults(items) == [type |-> "results", items |-> items]
IsOfficialClub(campaign) == campaign.clubid = 0
IsOfficialId(campaign) == campaign.id = 0
IsOfAClub(campaign) == campaign.clubid # 0

AllCampaignsKey(page) == "campaigns:all:" \o ToString(page)
AllCampaignsUrl(page) == "campaigns/" \o ToString(page)

\* Campaign.official_campaigns: the cached document is filtered on "clubid",
\* the fetched one on "id"
official_campaigns(c, up, ua, t, resp) ==
    LET key == AllCampaignsKey(0)
        url == AllCampaignsUrl(0)
        all_campaigns == get_from_cache(c, up, key)
    IN
    IF all_campaigns # PyNone
    THEN (IF all_campaigns.type # "dict"
          THEN Result(c, Raised("AttributeError"), {key}, {}, <<>>)
          ELSE Result(c, Returned(SearchResults(
                          SelectSeq(CampaignsOf(all_campaigns), IsOfficialClub))),
                      {key}, {}, <<>>))
    ELSE LET g == api_get(ua, resp) IN
         IF g.o.out = "raised" THEN Result(c, g.o, {key}, {}, Sent(url, g))
         ELSE IF HasError(g.o.val)
         THEN Result(c, Raised("TMIOException"), {key}, {}, Sent(url, g))
         ELSE LET c1 == set_in_cache(c, up, key, g.o.val, CampaignEx, t) IN
              IF g.o.val.type # "dict"
              THEN Result(c1, Raised("AttributeError"),
                          {key}, {Write(key, CampaignEx)}, Sent(url, g))
              ELSE Result(c1, Returned(SearchResults(
                              SelectSeq(CampaignsOf(g.o.val), IsOfficialId))),
                          {key}, {Write(key, CampaignEx)}, Sent(url, g))

\* Campaign.popular_campaigns: the cached page fills the list and the call
\* goes on to the origin, whose page is appended to it; nothing is written
popular_campaigns(c, up, ua, t, page, resp) ==
    LET key == AllCampaignsKey(page)
        url == AllCampaignsUrl(page)
        all_campaigns == get_from_cache(c, up, key)
        campaigns_list == IF all_campaigns = PyNone THEN <<>>
                          ELSE SelectSeq(CampaignsOf(all_campaigns), IsOfAClub)
    IN
    IF all_campaigns # PyNone /\ all_campaigns.type # "dict"
    THEN Result(c, Raised("AttributeError"), {key}, {}, <<>>)
    ELSE LET g == api_get(ua, resp) IN
         IF g.o.out = "raised" THEN Result(c, g.o, {key}, {}, Sent(url, g))
         ELSE IF HasError(g.o.val)
         THEN Result(c, Raised("TMIOException"), {key}, {}, Sent(url, g))
         ELSE IF g.o.val.type # "dict"
         THEN Result(c, Raised("AttributeError"), {key}, {}, Sent(url, g))
         ELSE Result(c, Returned(SearchResults(
                         campaigns_list \o SelectSeq(CampaignsOf(g.o.val), IsOfAClub))),
                     {key}, {}, Sent(url, g))

\* datetime.utcnow() of the calls of totd: a day in the middle of a month
Today == [year |-> 2022, month |-> 3, day |-> 15]
TotdKey(year, month, day) ==
    "totd|" \o ToString(year) \o "|" \o ToString(month) \o "|" \o ToString(day)
TotdMonthUrl(count) == "totd/" \o ToString(count)
TotdMapLeaderboardUrl(day) == "leaderboard/map/uid" \o ToString(day) \o "?offset=0&length=100"
\* the date checks of totd: whether one of them raises ValueError
TotdDateError(today, year, month, day) ==
    \/ year \notin {2020, 2021, 2022}
    \/ month \notin 1..12
    \/ day \notin (-1)..30 \/ day = 0
    \/ today.year = year /\ today.month < month
    \/ today.year = year /\ today.month = month /\ today.day < day
    \/ month = 2 /\ year % 4 # 0 /\ day > 28
    \/ month = 2 /\ year % 4 = 0 /\ day > 29
    \/ month % 2 = 0 /\ day > 30
    \/ year = 2020 /\ month < 7
\* how many months ago the given month is
TotdCount(today, year, month) ==
    IF year = 2020 THEN (12 - month) + 12 + today.month
    ELSE IF year = 2021 THEN (12 - month) + today.month
    ELSE today.month - month
TotdEx(count) == IF count # 0 THEN NoExpiry ELSE 14400
\* month_data["days"] and month_data["days"][day - 1] with its leaderboard
Days(doc) == [type |-> "days", doc |-> doc]
DayOf(doc, day, leaderboard_flag) ==
    [type |-> "dict", res |-> "totd day", id |-> doc.id \o "/" \o ToString(day),
     kind |-> "ok", leaderboard |-> leaderboard_flag]

\* totd_manager.totd: the month is returned before the client is closed; a
\* cached month comes back whole, a fetched one as its "days"; a cached
\* day is indexed as bytes
totd(c, up, ua, t, today, year, month, day, leaderboard_flag, resp, lbresp) ==
    LET monthkey == TotdKey(year, month, -1)
        key == TotdKey(year, month, day)
        count == TotdCount(today, year, month)
        url == TotdMonthUrl(count)
        lburl == TotdMapLeaderboardUrl(day)
        ex == TotdEx(count)
    IN
    IF TotdDateError(today, year, month, day)
    THEN Result(c, Raised("ValueError"), {}, {}, <<>>)
    ELSE IF up /\ day = -1 /\ RedisExists(c, monthkey)
    THEN Result(c, Returned(Loads(c[monthkey].val)), {monthkey}, {}, <<>>)
    ELSE IF up /\ RedisExists(c, key)
    THEN Result(c, Raised("TypeError"), {key}, {}, <<>>)
    ELSE LET a == APIClient(ua)
             month_data == request(resp, TRUE)
             lb == request(lbresp, TRUE)
         IN
         IF a.out = "raised" THEN Result(c, a, {key}, {}, <<>>)
         ELSE IF month_data.out = "raised" THEN Result(c, month_data, {key}, {}, <<url>>)
         ELSE IF day = -1
         THEN LET c1 == SetJson(c, up, monthkey, month_data.val, ex, t) IN
              IF month_data.val.type = "dict" /\ month_data.val.kind = "ok"
              THEN StillOpen(Result(c1, Returned(Days(month_data.val)),
                                    {key}, {Write(monthkey, ex)}, <<url>>))
              ELSE StillOpen(Result(c1, Raised("KeyError"),
                                    {key}, {Write(monthkey, ex)}, <<url>>))
         ELSE IF ~leaderboard_flag
         THEN (IF month_data.val.type = "dict" /\ month_data.val.kind = "ok"
               THEN LET totd_day == DayOf(month_data.val, day, FALSE) IN
                    Result(SetJson(c, up, key, totd_day, ex, t),
                           Returned(Obj("TOTD", totd_day)),
                           {key}, {Write(key, ex)}, <<url>>)
               ELSE Result(c, Raised("KeyError"), {key}, {}, <<url>>))
         ELSE IF ~(month_data.val.type = "dict" /\ month_data.val.kind = "ok")
         THEN StillOpen(Result(c, Raised("KeyError"), {key}, {}, <<url>>))
         ELSE IF lb.out = "raised" THEN Result(c, lb, {key}, {}, <<url, lburl>>)
         ELSE IF ~(lb.val.type = "dict" /\ lb.val.kind = "ok")
         THEN StillOpen(Result(c, Raised("KeyError"), {key}, {}, <<url, lburl>>))
         ELSE LET totd_day == DayOf(month_data.val, day, TRUE) IN
              Result(SetJson(c, up, key, totd_day, ex, t),
                     Returned(Obj("TOTD", totd_day)),
                     {key}, {Write(key, ex)}, <<url, lburl>>)

\* The matchmaking history of a player (matchmaking.py).
MatchmakingHistoryEx == 3600
MatchmakingHistoryKey(page, type_id, player_id) ==
    "matchmaking_history:" \o ToString(page) \o ":" \o ToString(type_id) \o ":" \o player_id
MatchmakingHistoryUrl(player_id, type_id, page) ==
    "player/" \o player_id \o "/matches/" \o ToString(type_id) \o "/" \o ToString(page)
\* document.get("history")
HistoryOf(doc) == [type |-> "history", doc |-> doc]

\* matchmaking._get_history: the id is looked at before anything else
get_history(c, up, ua, t, player_id, type_id, page, resp) ==
    LET key == MatchmakingHistoryKey(page, type_id, player_id)
        url == MatchmakingHistoryUrl(player_id, type_id, page)
        matchmaking_history == get_from_cache(c, up, key)
    IN
    IF player_id = NoPlayerId THEN Result(c, Raised("InvalidIDError"), {}, {}, <<>>)
    ELSE IF matchmaking_history # PyNone
    THEN (IF matchmaking_history.type # "dict"
          THEN Result(c, Raised("AttributeError"), {key}, {}, <<>>)
          ELSE Result(c, Returned(HistoryOf(matchmaking_history)), {key}, {}, <<>>))
    ELSE LET g == api_get(ua, resp) IN
         IF g.o.out = "raised" THEN Result(c, g.o, {key}, {}, Sent(url, g))
         ELSE IF HasError(g.o.val)
         THEN Result(c, Raised("TMIOException"), {key}, {}, Sent(url, g))
         ELSE LET c1 == set_in_cache(c, up, key, g.o.val, MatchmakingHistoryEx, t) IN
              IF g.o.val.type # "dict"
              THEN Result(c1, Raised("AttributeError"),
                          {key}, {Write(key, MatchmakingHistoryEx)}, Sent(url, g))
              ELSE Result(c1, Returned(HistoryOf(g.o.val)),
                          {key}, {Write(key, MatchmakingHistoryEx)}, Sent(url, g))

(***************************************************************************)
(* TOTD.latest_totd (totd.py): the date it asks get_totd for.              *)
(***************************************************************************)
Date(year, month, day) == [type |-> "date", year |-> year, month |-> month, day |-> day]
IsLeap(year) == year % 4 = 0 /\ (year % 100 # 0 \/ year % 400 = 0)
DaysInMonth(year, month) ==
    IF month = 2 THEN (IF IsLeap(year) THEN 29 ELSE 28)
    ELSE IF month \in {4, 6, 9, 11} THEN 30 ELSE 31
\* datetime(year, month, day): ValueError unless the day is one of the month
datetime(year, month, day) ==
    IF month \in 1..12 /\ day \in 1..DaysInMonth(year, month)
    THEN Returned(Date(year, month, day))
    ELSE Raised("ValueError")
\* TOTD.latest_totd: the date handed to get_totd, or the exception of
\* building it; today is datetime.utcnow()
latest_totd_of_TOTD(today) ==
    IF today.hour > 17 /\ today.minute > 0
    THEN Returned(Date(today.year, today.month, today.day))
    ELSE datetime(today.year, today.month, today.day - 1)

\* How a call ended.
Outcome(r) == [out |-> r.out, exc |-> r.exc, val |-> r.val]
NoOutcome == [out |-> "", exc |-> "", val |-> PyNone]

(***************************************************************************)
(* The state machine.                                                      *)
(***************************************************************************)
NoFetch == [at |-> -1, ex |-> 0]
NoCall ==
    [op |-> "none", args |-> "", flag |-> FALSE, out |-> "", exc |-> "",
     val |-> PyNone, status |-> 0, payload |-> PyNone, reads |-> {}, writes |-> {},
     sent |-> <<>>, resps |-> <<>>, up |-> TRUE, ua |-> NoUserAgent, at |-> 0,
     hits |-> {}, since |-> NoFetch, miss |-> NoOutcome, open |-> 0]

\* The asyncio tasks of the model and a task that is in no call.
Tasks == {1, 2}
IdleTask ==
    [pc |-> "idle", key |-> "", page |-> 0, royal |-> FALSE, sent |-> FALSE,
     out |-> NoOutcome]

ProgramInit ==
    /\ cache = EmptyCache
    /\ now = 0
    /\ cacheUp \in BOOLEAN
    /\ USER_AGENT \in UserAgents
    /\ RATELIMIT_REMAINING = NoCount
    /\ hdrRemaining = NoCount
    /\ slept = 0
    /\ requests = 0
    /\ fetched = [k \in {} |-> NoFetch]
    /\ tmmap = [offset |-> 0, length |-> 100, lb_loaded |-> FALSE]
    /\ last = NoCall
    /\ tasks = [p \in Tasks |-> IdleTask]

\* No normalizer has been applied.
Init ==
    /\ ProgramInit
    /\ input = PyNone
    /\ output = PyNone

\* The TTL with which a call wrote the entry under key, 0 when it wrote none.
WrittenEx(r, key) ==
    IF \E w \in r.writes : w.key = key
    THEN (CHOOSE w \in r.writes : w.key = key).ex
    ELSE 0
WrittenKeys(r) == {w.key : w \in r.writes}

\* A call of a fetch operation has ended with result r: the program state
\* after it.  key is the key of the operation's document, resps the answers
\* of the origin to the requests the call sent.  m is the result the same
\* call has with an empty, reachable cache; `last` keeps its outcome for the
\* calls made while Redis is unreachable.
Commit(op, args, flag, key, r, m, resps) ==
    LET answers == SubSeq(resps, 1, Len(r.sent)) IN
    /\ requests + Len(r.sent) <= MaxRequests
    /\ cache' = r.cache
    /\ requests' = requests + Len(r.sent)
    /\ hdrRemaining' = IF answers = <<>> THEN hdrRemaining
                       ELSE answers[Len(answers)].remaining
    /\ fetched' = IF cacheUp /\ r.out = "returned" /\ r.sent # <<>>
                  THEN [k \in DOMAIN fetched \cup {key} \cup WrittenKeys(r) |->
                          IF k \in {key} \cup WrittenKeys(r)
                          THEN [at |-> now, ex |-> WrittenEx(r, k)]
                          ELSE fetched[k]]
                  ELSE fetched
    /\ last' = [op |-> op, args |-> args, flag |-> flag, out |-> r.out, exc |-> r.exc,
                val |-> r.val, status |-> r.status, payload |-> r.payload,
                reads |-> r.reads, writes |-> r.writes, sent |-> r.sent,
                resps |-> answers, up |-> cacheUp, ua |-> USER_AGENT, at |-> now,
                hits |-> IF cacheUp THEN r.reads \cap DOMAIN cache ELSE {},
                since |-> IF key \in DOMAIN fetched THEN fetched[key] ELSE NoFetch,
                miss |-> IF cacheUp THEN NoOutcome ELSE Outcome(m),
                open |-> r.open]
    /\ UNCHANGED <<now, cacheUp, USER_AGENT, RATELIMIT_REMAINING, tasks, input, output>>

\* the arguments the calls are made with
Pages == {-1, 0}
ClubIds == {0, 1}
RoomIds == {1}
Groups == {2, 4}
Offsets == {0}
Lengths == {0, 150}

GetPlayer ==
    \E player_id \in PlayerIds \cup {""}, raw \in BOOLEAN :
    \E resp \in OriginResponses("player", player_id) :
        /\ Commit("get_player", player_id, raw, PlayerDataKey(player_id),
                  get_player(cache, cacheUp, USER_AGENT, now, player_id, raw, resp),
                  get_player(EmptyCache, TRUE, USER_AGENT, now, player_id, raw, resp),
                  <<resp>>)
        /\ UNCHANGED <<tmmap, slept>>

SearchPlayer ==
    \E username \in Usernames : \E resp \in SearchResponses(username) :
        /\ Commit("search_player", username, FALSE, "",
                  search_player(cache, USER_AGENT, username, resp),
                  search_player(EmptyCache, USER_AGENT, username, resp), <<resp>>)
        /\ UNCHANGED <<tmmap, slept>>

ToAccountId ==
    \E username \in Usernames : \E resp \in SearchResponses(username) :
        /\ Commit("to_account_id", username, FALSE, AccountIdKey(username),
                  to_account_id(cache, cacheUp, USER_AGENT, now, username, resp),
                  to_account_id(EmptyCache, TRUE, USER_AGENT, now, username, resp),
                  <<resp>>)
        /\ UNCHANGED <<tmmap, slept>>

ToUsername ==
    \E player_id \in PlayerIds : \E resp \in OriginResponses("player", player_id) :
        /\ Commit("to_username", player_id, FALSE, UsernameKey(player_id),
                  to_username(cache, cacheUp, USER_AGENT, now, player_id, resp),
                  to_username(EmptyCache, TRUE, USER_AGENT, now, player_id, resp),
                  <<resp>>)
        /\ UNCHANGED <<tmmap, slept>>

GetClub ==
    \E club_id \in ClubIds : \E resp \in OriginResponses("club", ToString(club_id)) :
        /\ Commit("get_club", ToString(club_id), FALSE, ClubKey(club_id),
                  get_club(cache, cacheUp, USER_AGENT, now, club_id, resp),
                  get_club(EmptyCache, TRUE, USER_AGENT, now, club_id, resp), <<resp>>)
        /\ UNCHANGED <<tmmap, slept>>

ListClubs ==
    \E page \in {0} : \E resp \in OriginResponses("clubs", ToString(page)) :
        /\ Commit("list_clubs", ToString(page), FALSE, ClubsKey(page),
                  list_clubs(cache, cacheUp, USER_AGENT, now, page, resp),
                  list_clubs(EmptyCache, TRUE, USER_AGENT, now, page, resp), <<resp>>)
        /\ UNCHANGED <<tmmap, slept>>

GetMembers ==
    \E club_id \in {1}, page \in {0} :
    \E resp \in OriginResponses("club_members", ToString(club_id)) :
        /\ Commit("get_members", ToString(club_id), FALSE, MembersKey(club_id, page),
                  get_members(cache, cacheUp, USER_AGENT, now, club_id, page, resp),
                  get_members(EmptyCache, TRUE, USER_AGENT, now, club_id, page, resp),
                  <<resp>>)
        /\ UNCHANGED <<tmmap, slept>>

GetCampaign ==
    \E club_id \in ClubIds : \E resp \in OriginResponses("campaign", ToString(club_id)) :
        /\ Commit("get_campaign", ToString(club_id), FALSE,
                  CampaignKey(CampaignId, club_id),
                  get_campaign(cache, cacheUp, USER_AGENT, now, CampaignId, club_id, resp),
                  get_campaign(EmptyCache, TRUE, USER_AGENT, now, CampaignId, club_id, resp),
                  <<resp>>)
        /\ UNCHANGED <<tmmap, slept>>

GetRoom ==
    \E room_id \in RoomIds : \E resp \in OriginResponses("room", ToString(room_id)) :
        /\ Commit("get_room", ToString(room_id), FALSE, RoomKey(1, room_id),
                  get_room(cache, cacheUp, USER_AGENT, now, 1, room_id, resp),
                  get_room(EmptyCache, TRUE, USER_AGENT, now, 1, room_id, resp), <<resp>>)
        /\ UNCHANGED <<tmmap, slept>>

GetMap ==
    \E resp \in OriginResponses("map", MapUid) :
        /\ Commit("get_map", MapUid, FALSE, MapKey(MapUid),
                  get_map(cache, cacheUp, USER_AGENT, now, MapUid, resp),
                  get_map(EmptyCache, TRUE, USER_AGENT, now, MapUid, resp), <<resp>>)
        /\ UNCHANGED <<tmmap, slept>>

TopMatchmaking ==
    \E group \in Groups, page \in {0} :
    \E resp \in OriginResponses("matchmaking", ToString(group)) :
        /\ Commit("top_matchmaking", ToString(group) \o "," \o ToString(page), FALSE,
                  MatchmakingKey(group, page),
                  top_matchmaking(cache, cacheUp, USER_AGENT, now, group, page, resp),
                  top_matchmaking(EmptyCache, TRUE, USER_AGENT, now, group, page, resp),
                  <<resp>>)
        /\ UNCHANGED <<tmmap, slept>>

TopTrophies ==
    \E page \in Pages : \E resp \in OriginResponses("trophies", ToString(page)) :
        /\ Commit("top_trophies", ToString(page), FALSE, TrophiesKey(page),
                  top_trophies(cache, cacheUp, USER_AGENT, now, page, resp),
                  top_trophies(EmptyCache, TRUE, USER_AGENT, now, page, resp), <<resp>>)
        /\ UNCHANGED <<tmmap, slept>>

GetTopMatchmaking ==
    \E page \in {0}, royal \in BOOLEAN :
    \E resp \in OriginResponses("top_matchmaking", BoolStr(royal)) :
        /\ Commit("_get_top_matchmaking", ToString(page), royal, TopKey(page, royal),
                  get_top_matchmaking(cache, cacheUp, USER_AGENT, now, page, royal, resp),
                  get_top_matchmaking(EmptyCache, TRUE, USER_AGENT, now, page, royal, resp),
                  <<resp>>)
        /\ UNCHANGED <<tmmap, slept>>

GetLeaderboard ==
    \E offset \in Offsets, length \in Lengths :
    \E resp \in OriginResponses("leaderboard", ToString(offset) \o ":" \o ToString(Min(length, 100))) :
        LET res == get_leaderboard(cache, cacheUp, USER_AGENT, now, tmmap, offset, length, resp) IN
        /\ Commit("get_leaderboard", ToString(offset) \o "," \o ToString(length), FALSE,
                  LeaderboardKey(MapUid, offset, Min(length, 100)), res.r,
                  get_leaderboard(EmptyCache, TRUE, USER_AGENT, now, tmmap, offset, length, resp).r,
                  <<resp>>)
        /\ tmmap' = res.self
        /\ UNCHANGED slept

\* The document of the origin for the entries from offset on, length of them.
LeaderboardPage(offset, length) == ToString(offset) \o ":" \o ToString(length)
LoadMoreLengths == {0, 50, 150}

LoadMoreLeaderboard ==
    \E length \in LoadMoreLengths :
    \E resp \in OriginResponses("leaderboard",
                                LeaderboardPage(LoadMoreOffset(tmmap),
                                                LoadMoreLength(tmmap, length))) :
        LET res == load_more_leaderboard(cache, cacheUp, USER_AGENT, now, tmmap, length, resp) IN
        /\ Commit("load_more_leaderboard", ToString(length), FALSE,
                  LeaderboardKey(MapUid, tmmap.offset, tmmap.length), res.r,
                  load_more_leaderboard(EmptyCache, TRUE, USER_AGENT, now, tmmap, length, resp).r,
                  <<resp>>)
        /\ tmmap' = res.self
        /\ UNCHANGED slept

CampaignLeaderboards ==
    \E offset \in {0}, length \in {100} :
    \E resp \in OriginResponses("campaign_leaderboard", ToString(offset)) :
        /\ Commit("leaderboards", ToString(offset) \o "," \o ToString(length), FALSE,
                  CampaignLeaderboardKey(CampaignId, offset, length),
                  leaderboards(cache, cacheUp, USER_AGENT, now, offset, length, resp),
                  leaderboards(EmptyCache, TRUE, USER_AGENT, now, offset, length, resp),
                  <<resp>>)
        /\ UNCHANGED <<tmmap, slept>>

LatestTotd ==
    \E leaderboard_flag \in BOOLEAN :
    \E resp \in OriginResponses("totd", "0"), lbresp \in OriginResponses("leaderboard", "totd") :
        /\ Commit("latest_totd", "", leaderboard_flag, LatestTotdKey,
                  latest_totd(cache, cacheUp, USER_AGENT, now, leaderboard_flag, resp, lbresp),
                  latest_totd(EmptyCache, TRUE, USER_AGENT, now, leaderboard_flag, resp, lbresp),
                  <<resp, lbresp>>)
        /\ UNCHANGED <<tmmap, slept>>

\* The COTD pages the origin serves, with the quota it reports in
\* x-ratelimit-remaining.
CotdRemaining == {5, 30}
CotdResponses(player_id, page) ==
    { [Response(200, JsonType, OkDoc("cotd", ToString(page))) EXCEPT !.remaining = n] :
          n \in CotdRemaining }
    \cup { Response(200, JsonType, ErrDoc("cotd", ToString(page))) }

GetPlayerCotd ==
    \E player_id \in PlayerIds, page \in {-1, 0, 1} :
    \E resp \in CotdResponses(player_id, page) :
        LET r == get_player_cotd(cache, cacheUp, USER_AGENT, now, player_id, page, resp) IN
        /\ Commit("get_player_cotd", player_id \o "," \o ToString(page), FALSE,
                  CotdKey(player_id, page), r,
                  get_player_cotd(EmptyCache, TRUE, USER_AGENT, now, player_id, page, resp),
                  <<resp>>)
        /\ slept' = slept + (IF r.sent # <<>> THEN CotdSleep(RATELIMIT_REMAINING) ELSE 0)
        /\ UNCHANGED tmmap

\* The objects history is called on, and the pages asked for.
TrophyOwners == PlayerIds \cup {"p2", NoPlayerId}
HistoryPages == {0, 1}
HistoryArgs(player_id, page) == player_id \o "," \o ToString(page)

History ==
    \E player_id \in TrophyOwners, page \in HistoryPages :
    \E resp \in OriginResponses("trophy_history", HistoryArgs(player_id, page)) :
        /\ Commit("history", HistoryArgs(player_id, page), FALSE, TrophyHistoryKey(page),
                  history(cache, cacheUp, USER_AGENT, now, player_id, page, resp),
                  history(EmptyCache, TRUE, USER_AGENT, now, player_id, page, resp),
                  <<resp>>)
        /\ UNCHANGED <<tmmap, slept>>

(***************************************************************************)
(* The functions of the library that touch neither the cache nor the       *)
(* origin: `input` is the argument of the call, `output` how the last call *)
(* on it ended.                                                            *)
(***************************************************************************)
NotApplied == [fn |-> "", out |-> "", exc |-> "", val |-> PyNone]
Applied(fn, o) == [fn |-> fn, out |-> o.out, exc |-> o.exc, val |-> o.val]
\* what a call of such a function leaves alone
program == <<cache, now, cacheUp, USER_AGENT, RATELIMIT_REMAINING, hdrRemaining,
             slept, requests, fetched, tmmap, last, tasks>>

\* The matchmaking arrays of the player documents.
MaxScore == 3
MaxPoints == 3
TypeIds == {2, 3}
MatchmakingEntries ==
    [typeid : TypeIds, score : 0..MaxScore, minpoints : 0..1, maxpoints : 0..MaxPoints]
MatchmakingArrays ==
    {<<>>} \cup {<<e>> : e \in MatchmakingEntries}
           \cup {<<e, f>> : e \in MatchmakingEntries, f \in MatchmakingEntries}

FromDict ==
    /\ output' = Applied("PlayerMatchmaking._from_dict",
                         Returned(PlayerMatchmaking_from_dict(input)))
    /\ UNCHANGED <<program, input>>
ParseMatchmaking ==
    /\ output' = Applied("__parse_matchmaking", Returned(parse_matchmaking(input)))
    /\ UNCHANGED <<program, input>>

\* The instants the documents speak of, their renderings in the five
\* formats, and the texts and the missing value the "timestamp" field of a
\* document may also hold.
MaxMinute == 1
Instants ==
    {DateTime(day, hour, minute, second, microsecond) :
        day \in {7}, hour \in {4, 17}, minute \in 0..MaxMinute,
        second \in {0, 19}, microsecond \in {0, 500}}
\* str of the instant in a format; a format without seconds or without a
\* fraction renders the instants that have none
Renders(fmt, d) ==
    /\ (\A i \in 1..Len(fmt) : fmt[i].k # "%S") => d.second = 0
    /\ (\A i \in 1..Len(fmt) : fmt[i].k # "%f") => d.microsecond = 0
Rendering(fmt, d) ==
    Text([i \in 1..Len(fmt) |->
            IF fmt[i].k = "lit" THEN fmt[i]
            ELSE Field(fmt[i].k,
                       CASE fmt[i].k = "%Y-%m-%d" -> d.day
                         [] fmt[i].k = "%H" -> d.hour
                         [] fmt[i].k = "%M" -> d.minute
                         [] fmt[i].k = "%S" -> d.second
                         [] OTHER -> d.microsecond)])
Renderings ==
    UNION {{Rendering(formats[f], d) : d \in {e \in Instants : Renders(formats[f], e)}} :
              f \in 1..Len(formats)}
\* a date alone, an offset other than +00:00, and words
Unrecognized ==
    { Text(<<Field("%Y-%m-%d", 7)>>),
      Text(<<Field("%Y-%m-%d", 7), Lit("T"), Field("%H", 4), Lit(":"), Field("%M", 0),
             Lit(":"), Field("%S", 19), Lit("+01:00")>>),
      Text(<<Lit("yesterday")>>) }
Timestamps == Renderings \cup Unrecognized \cup {NoText}

FrmtStrToDatetime ==
    /\ output' = Applied("_frmt_str_to_datetime", frmt_str_to_datetime(input))
    /\ UNCHANGED <<program, input>>
LeaderboardFromDict ==
    /\ output' = Applied("Leaderboard._from_dict", from_dict("Leaderboard", input))
    /\ UNCHANGED <<program, input>>
MapFromDict ==
    /\ output' = Applied("TMMap._from_dict", from_dict("TMMap", input))
    /\ UNCHANGED <<program, input>>
TrophiesFromDict ==
    /\ output' = Applied("PlayerTrophies._from_dict", from_dict("PlayerTrophies", input))
    /\ UNCHANGED <<program, input>>

\* The names and tags to strip: the texts of up to MaxLen characters over a
\* "$", a colour digit, a link letter, the brackets and a plain letter, and
\* None.
MaxLen == 5
Alphabet == {"$", "f", "l", "[", "]", "x"}
Markups == {NoText} \cup {Text(s) : s \in UNION {[1..n -> Alphabet] : n \in 0..MaxLen}}

RegexIt ==
    /\ output' = Applied("_regex_it", Returned(regex_it(input)))
    /\ UNCHANGED <<program, input>>
\* _regex_it(_regex_it(text))
RegexItAgain ==
    /\ output.fn = "_regex_it"
    /\ output' = Applied("_regex_it(_regex_it)", Returned(regex_it(output.val)))
    /\ UNCHANGED <<program, input>>

\* The tallies: up to MaxCount trophies in each of the nine tiers, and the
\* tally of the player of the test.
MaxCount == 1
Tiers == 1..9
TestTally == <<3378, 3868, 5482, 570, 163, 5, 0, 0, 0>>
Tallies == [Tiers -> 0..MaxCount] \cup {TestTally}

Score ==
    /\ output' = Applied("trophy.PlayerTrophies.score", Returned(PyInt(score(input))))
    /\ UNCHANGED <<program, input>>
ScoreOfPlayer ==
    /\ output' = Applied("player.PlayerTrophies.score",
                         Returned(PyInt(score_of_player(input))))
    /\ UNCHANGED <<program, input>>

\* The names and the club tags of the documents.
MaxNameLen == 2
Names == {Text(s) : s \in UNION {[1..n -> Alphabet] : n \in 0..MaxNameLen}}
Tags == {NoText, Text(<<"T", "A", "G">>), Text(<<"$", "f", "6", "3", "W", "$", "$">>)}

MapFromDictText ==
    /\ output' = Applied("TMMap._from_dict", Returned(MapText(input)))
    /\ UNCHANGED <<program, input>>
LeaderboardFromDictText ==
    /\ output' = Applied("Leaderboard._from_dict", Returned(LeaderboardText(input)))
    /\ UNCHANGED <<program, input>>
RankingFromDict ==
    /\ output' = Applied("MatchmakingLeaderboardPlayer._from_dict",
                         Returned(RankingText(input)))
    /\ UNCHANGED <<program, input>>
ParsePlayerText ==
    /\ output' = Applied("_parse_player", Returned(PlayerText(input)))
    /\ UNCHANGED <<program, input>>

\* The medal times: up to MaxMedalMinutes minutes, with the seconds and the
\* milliseconds at and between their ends.
MaxMedalMinutes == 2
MedalTimes ==
    {60000 * m + 1000 * s + ms : m \in 0..MaxMedalMinutes, s \in {0, 1, 59}, ms \in {0, 7, 999}}

ParseToString ==
    /\ output' = Applied("tmmap.MedalTimes._parse_to_string",
                         Returned(Text(parse_to_string(input))))
    /\ UNCHANGED <<program, input>>
ParseToStringOfMap ==
    /\ output' = Applied("map.MedalTimes._parse_to_string",
                         Returned(Text(parse_to_string_of_map(input))))
    /\ UNCHANGED <<program, input>>

\* The player documents: every choice of the optional keys that are there,
\* and no, one or two matchmaking records.
MetaDocs ==
    [twitter : {Absent, PyStr("tw")}, twitch : {Absent, PyStr("tv")},
     sponsor : {Absent, PyBool(TRUE)}, sponsorlevel : {Absent, PyInt(2)},
     nadeo : {Absent, PyBool(TRUE)}]
Threes == [typeid |-> 2, score |-> 1, minpoints |-> 0, maxpoints |-> 2]
Royal == [typeid |-> 3, score |-> 0, minpoints |-> 0, maxpoints |-> 1]
PlayerDocs ==
    [clubtag : {Absent, PyStr("TAG")}, clubtagtimestamp : {Absent, PyStr("2022-03-06")},
     meta : {Absent} \cup MetaDocs,
     matchmaking : {<<>>, <<Threes>>, <<Threes, Royal>>}]

ParsePlayer ==
    /\ output' = Applied("_parse_player", parse_player(input))
    /\ UNCHANGED <<program, input>>
ParsePlayerOfUtil ==
    /\ output' = Applied("parse_player", parse_player_of_util(input))
    /\ UNCHANGED <<program, input>>

\* The zone chains and the rank arrays of the player documents.
MaxDepth == 5
ZoneDocs == {ZoneDoc(levels, key) : levels \in 0..MaxDepth, key \in {"name", "zone"}}
Ranks == {1, 2}
ZonePositions == UNION {[1..n -> Ranks] : n \in 0..MaxDepth}

ParseZonesOfPlayerZone ==
    /\ output' = Applied("PlayerZone._parse_zones",
                         PlayerZone_parse_zones(input.zones, input.zone_positions))
    /\ UNCHANGED <<program, input>>
ParseZones ==
    /\ output' = Applied("_parse_zones", parse_zones(input.zones, input.zone_positions))
    /\ UNCHANGED <<program, input>>

\* the pages of campaigns the origin may serve
MaxCampaigns == 2
\* a campaign of Nadeo (club 0) and one of a club
CampaignEntries == {[id |-> 1, clubid |-> 0], [id |-> 2, clubid |-> 9]}
CampaignLists == UNION {[1..n -> CampaignEntries] : n \in 0..MaxCampaigns}
CampaignsResponses(page) ==
    {Response(200, JsonType, CampaignsDoc(page, campaigns)) : campaigns \in CampaignLists}
    \cup (OriginResponses("campaigns", ToString(page))
          \ {Response(200, JsonType, OkDoc("campaigns", ToString(page)))})
CampaignPages == {0, 1}

OfficialCampaigns ==
    \E resp \in CampaignsResponses(0) :
        /\ Commit("official_campaigns", "", FALSE, AllCampaignsKey(0),
                  official_campaigns(cache, cacheUp, USER_AGENT, now, resp),
                  official_campaigns(EmptyCache, TRUE, USER_AGENT, now, resp),
                  <<resp>>)
        /\ UNCHANGED <<tmmap, slept>>

PopularCampaigns ==
    \E page \in CampaignPages : \E resp \in CampaignsResponses(page) :
        /\ Commit("popular_campaigns", ToString(page), FALSE, AllCampaignsKey(page),
                  popular_campaigns(cache, cacheUp, USER_AGENT, now, page, resp),
                  popular_campaigns(EmptyCache, TRUE, USER_AGENT, now, page, resp),
                  <<resp>>)
        /\ UNCHANGED <<tmmap, slept>>

\* the dates totd is asked for: this month, the one before, the one to come
TotdYears == {Today.year}
TotdMonths == {Today.month - 1, Today.month, Today.month + 1}
TotdDays == {-1, 1}
Totd ==
    \E year \in TotdYears, month \in TotdMonths, day \in TotdDays :
    \E leaderboard_flag \in BOOLEAN :
    \E resp \in OriginResponses("totd", ToString(TotdCount(Today, year, month))) :
    \E lbresp \in IF leaderboard_flag THEN OriginResponses("leaderboard", ToString(day))
                   ELSE {resp} :
        /\ Commit("totd", TotdKey(year, month, day), leaderboard_flag,
                  TotdKey(year, month, day),
                  totd(cache, cacheUp, USER_AGENT, now, Today, year, month, day,
                       leaderboard_flag, resp, lbresp),
                  totd(EmptyCache, TRUE, USER_AGENT, now, Today, year, month, day,
                       leaderboard_flag, resp, lbresp),
                  <<resp, lbresp>>)
        /\ UNCHANGED <<tmmap, slept>>

\* the queues (type ids) whose history is asked for
HistoryTypeIds == {2}
HistoryArgsOf(player_id, type_id, page) ==
    player_id \o "/" \o ToString(type_id) \o "/" \o ToString(page)
GetHistory ==
    \E player_id \in TrophyOwners, type_id \in HistoryTypeIds, page \in HistoryPages :
    \E resp \in OriginResponses("matches", HistoryArgsOf(player_id, type_id, page)) :
        /\ Commit("_get_history", HistoryArgsOf(player_id, type_id, page), FALSE,
                  MatchmakingHistoryKey(page, type_id, player_id),
                  get_history(cache, cacheUp, USER_AGENT, now, player_id, type_id, page, resp),
                  get_history(EmptyCache, TRUE, USER_AGENT, now, player_id, type_id, page, resp),
                  <<resp>>)
        /\ UNCHANGED <<tmmap, slept>>

\* A request made through APIClient.request directly.
Methods == {"GET", "POST", "PUT", "PATCH"}
Statuses == {200, 204, 399, 400, 404, 500}
Bodies == { OkDoc("any", "x"), ErrDoc("any", "x"), PyList("any", "x", <<"p1">>),
            RawText("error page") }
TransportResponses ==
    { Response(st, ct, b) : st \in Statuses, ct \in {JsonType, "text/html"}, b \in Bodies }

Request ==
    \E method \in Methods, raise_for_status \in BOOLEAN, resp \in TransportResponses :
        LET a == APIClient(USER_AGENT)
            o == IF a.out = "raised" THEN a ELSE request(resp, raise_for_status)
            sent == IF a.out = "raised" THEN <<>> ELSE <<"endpoint">>
        IN
        /\ Commit("request", method, raise_for_status, "",
                  Result(cache, o, {}, {}, sent), Result(cache, o, {}, {}, sent), <<resp>>)
        /\ UNCHANGED <<tmmap, slept>>

(***************************************************************************)
(* The environment: time passes and Redis expires keys, the Redis server   *)
(* goes away and comes back, the application sets its user agent.          *)
(***************************************************************************)
Tick(instants) ==
    \E t \in instants :
        /\ t > now
        /\ now' = t
        /\ cache' = Expire(cache, t)
        /\ UNCHANGED <<cacheUp, USER_AGENT, RATELIMIT_REMAINING, hdrRemaining,
                       slept, requests, fetched, tmmap, last, tasks, input, output>>

\* An unreachable server ends the period over which the history in
\* `fetched` speaks about the cache.
RedisDown ==
    /\ cacheUp
    /\ cacheUp' = FALSE
    /\ fetched' = [k \in {} |-> NoFetch]
    /\ UNCHANGED <<cache, now, USER_AGENT, RATELIMIT_REMAINING, hdrRemaining,
                   slept, requests, tmmap, last, tasks, input, output>>

RedisUp ==
    /\ ~cacheUp
    /\ cacheUp' = TRUE
    /\ UNCHANGED <<cache, now, USER_AGENT, RATELIMIT_REMAINING, hdrRemaining,
                   slept, requests, fetched, tmmap, last, tasks, input, output>>

\* Client.USER_AGENT is a class attribute the application assigns.
SetUserAgent ==
    /\ USER_AGENT' \in UserAgents \ {USER_AGENT}
    /\ UNCHANGED <<cache, now, cacheUp, RATELIMIT_REMAINING, hdrRemaining,
                   slept, requests, fetched, tmmap, last, tasks, input, output>>

(***************************************************************************)
(* Concurrent calls of matchmaking._get_top_matchmaking.  A coroutine runs *)
(* without interruption up to its next await: the cache lookup, the        *)
(* construction of the client and the sending of the request are one step, *)
(* and what follows the answer is another.                                 *)
(***************************************************************************)
\* a call that found no entry waits for a request another task has in
\* flight for the same key instead of sending its own
SendsOnlyIfNoneInFlight(ts, p, key) ==
    ~\E q \in Tasks \ {p} : ts[q].pc = "awaiting" /\ ts[q].key = key /\ ts[q].sent
\* _get_top_matchmaking after a miss: the request is sent, whatever the
\* other tasks are doing
SendsRequest(ts, p, key) == TRUE

\* _get_top_matchmaking up to `await api_client.get(...)`
BeginTopMatchmaking(p) ==
    \E page \in {0}, royal \in BOOLEAN :
        LET key == TopKey(page, royal)
            data == get_from_cache(cache, cacheUp, key)
            a == APIClient(USER_AGENT)
            call == [IdleTask EXCEPT !.key = key, !.page = page, !.royal = royal]
        IN
        /\ tasks[p].pc # "awaiting"
        /\ IF data # PyNone
           THEN /\ tasks' = [tasks EXCEPT ![p] =
                        [call EXCEPT !.pc = "done",
                            !.out = Outcome(Returned(ObjList("MatchmakingLeaderboardPlayer",
                                                             data, ItemCount(data))))]]
                /\ UNCHANGED requests
           ELSE IF a.out = "raised"
           THEN /\ tasks' = [tasks EXCEPT ![p] = [call EXCEPT !.pc = "done", !.out = Outcome(a)]]
                /\ UNCHANGED requests
           ELSE LET sent == SendsRequest(tasks, p, key) IN
                /\ requests < MaxRequests
                /\ tasks' = [tasks EXCEPT ![p] = [call EXCEPT !.pc = "awaiting", !.sent = sent]]
                /\ requests' = requests + (IF sent THEN 1 ELSE 0)
        /\ UNCHANGED <<cache, now, cacheUp, USER_AGENT, RATELIMIT_REMAINING, hdrRemaining,
                       slept, fetched, tmmap, last, input, output>>

\* _get_top_matchmaking from the answer of the origin to its return
ResumeTopMatchmaking(p) ==
    \E resp \in OriginResponses("top_matchmaking", BoolStr(tasks[p].royal)) :
        LET o == request(resp, TRUE)
            key == tasks[p].key
            stored == o.out = "returned" /\ ~HasError(o.val)
            out == IF o.out = "raised" THEN Outcome(o)
                   ELSE IF HasError(o.val) THEN Outcome(Raised("TMIOException"))
                   ELSE Outcome(Returned(ObjList("MatchmakingLeaderboardPlayer",
                                                 o.val, ItemCount(o.val))))
        IN
        /\ tasks[p].pc = "awaiting"
        /\ tasks' = [tasks EXCEPT ![p].pc = "done", ![p].out = out]
        /\ cache' = IF stored
                    THEN set_in_cache(cache, cacheUp, key, o.val, TopMatchmakingEx, now)
                    ELSE cache
        /\ hdrRemaining' = resp.remaining
        /\ UNCHANGED <<now, cacheUp, USER_AGENT, RATELIMIT_REMAINING, slept, requests,
                       fetched, tmmap, last, input, output>>

\* The instants at which the entries are looked at: inside and at the end of
\* the TTLs of the family.
PlayerInstants == {300, 600}
ClubInstants == {3600, 43200}
RankingInstants == {3600, 10800}
\* 12:00 and 17:30 UTC
DailyInstants == {43200, 63000}

NextPlayer ==
    \/ GetPlayer \/ SearchPlayer \/ ToAccountId \/ ToUsername
    \/ Tick(PlayerInstants) \/ RedisDown \/ RedisUp \/ SetUserAgent
SpecPlayer == Init /\ [][NextPlayer]_vars

NextClub ==
    \/ GetClub \/ ListClubs \/ GetMembers \/ GetCampaign \/ GetRoom \/ GetMap
    \/ Tick(ClubInstants) \/ RedisDown \/ RedisUp \/ SetUserAgent
SpecClub == Init /\ [][NextClub]_vars

NextRankings ==
    \/ TopMatchmaking \/ TopTrophies \/ GetTopMatchmaking \/ GetLeaderboard
    \/ CampaignLeaderboards
    \/ Tick(RankingInstants) \/ RedisDown \/ RedisUp \/ SetUserAgent
SpecRankings == Init /\ [][NextRankings]_vars

NextDaily ==
    \/ LatestTotd \/ GetPlayerCotd
    \/ Tick(DailyInstants) \/ RedisDown \/ RedisUp \/ SetUserAgent
SpecDaily == Init /\ [][NextDaily]_vars

NextTransport == Request \/ SetUserAgent
SpecTransport == Init /\ [][NextTransport]_vars

NextConcurrent ==
    \/ \E p \in Tasks : BeginTopMatchmaking(p)
    \/ \E p \in Tasks : ResumeTopMatchmaking(p)
    \/ Tick(RankingInstants) \/ RedisDown \/ RedisUp \/ SetUserAgent
SpecConcurrent == Init /\ [][NextConcurrent]_vars

NextLeaderboard ==
    \/ GetLeaderboard \/ LoadMoreLeaderboard
    \/ RedisDown \/ RedisUp \/ SetUserAgent
SpecLeaderboard == Init /\ [][NextLeaderboard]_vars

NextCampaigns ==
    \/ OfficialCampaigns \/ PopularCampaigns \/ Totd
    \/ RedisDown \/ RedisUp
SpecCampaigns == Init /\ [][NextCampaigns]_vars

NextSessions ==
    \/ GetHistory \/ History \/ Totd
    \/ RedisDown \/ RedisUp
SpecSessions == Init /\ [][NextSessions]_vars

TrophyInstants == {1800, 3600}
NextTrophy ==
    \/ History
    \/ Tick(TrophyInstants) \/ RedisDown \/ RedisUp \/ SetUserAgent
SpecTrophy == Init /\ [][NextTrophy]_vars

InitTimestamps ==
    /\ ProgramInit
    /\ input \in Timestamps
    /\ output = NotApplied
NextTimestamps == FrmtStrToDatetime \/ LeaderboardFromDict \/ MapFromDict \/ TrophiesFromDict
SpecTimestamps == InitTimestamps /\ [][NextTimestamps]_vars

InitMarkup ==
    /\ ProgramInit
    /\ input \in Markups
    /\ output = NotApplied
NextMarkup == RegexIt \/ RegexItAgain
SpecMarkup == InitMarkup /\ [][NextMarkup]_vars

InitTrophies ==
    /\ ProgramInit
    /\ input \in Tallies
    /\ output = NotApplied
NextTrophies == Score \/ ScoreOfPlayer
SpecTrophies == InitTrophies /\ [][NextTrophies]_vars

InitText ==
    /\ ProgramInit
    /\ input \in [name : Names, tag : Tags]
    /\ output = NotApplied
NextText == MapFromDictText \/ LeaderboardFromDictText \/ RankingFromDict \/ ParsePlayerText
SpecText == InitText /\ [][NextText]_vars

\* The values of datetime.utcnow(): first, second and last days of months,
\* around the hour the track of the day changes.
UtcNows ==
    [year : {2021, 2024}, month : {1, 3, 12}, day : {1, 2, 31},
     hour : {0, 17, 18, 19}, minute : 0..MaxMinute]
LatestTotdOfClass ==
    /\ output' = Applied("TOTD.latest_totd", latest_totd_of_TOTD(input))
    /\ UNCHANGED <<program, input>>
InitCalendar ==
    /\ ProgramInit
    /\ input \in UtcNows
    /\ output = NotApplied
NextCalendar == LatestTotdOfClass
SpecCalendar == InitCalendar /\ [][NextCalendar]_vars

InitMedals ==
    /\ ProgramInit
    /\ input \in MedalTimes
    /\ output = NotApplied
NextMedals == ParseToString \/ ParseToStringOfMap
SpecMedals == InitMedals /\ [][NextMedals]_vars

InitOptional ==
    /\ ProgramInit
    /\ input \in PlayerDocs
    /\ output = NotApplied
NextOptional == ParsePlayer \/ ParsePlayerOfUtil
SpecOptional == InitOptional /\ [][NextOptional]_vars

InitZones ==
    /\ ProgramInit
    /\ input \in [zones : ZoneDocs, zone_positions : ZonePositions]
    /\ output = NotApplied
NextZones == ParseZonesOfPlayerZone \/ ParseZones
SpecZones == InitZones /\ [][NextZones]_vars

InitMatchmaking ==
    /\ ProgramInit
    /\ input \in MatchmakingArrays
    /\ output = NotApplied
NextMatchmaking == FromDict \/ ParseMatchmaking
SpecMatchmaking == InitMatchmaking /\ [][NextMatchmaking]_vars

Next ==
    \/ GetPlayer \/ SearchPlayer \/ ToAccountId \/ ToUsername
    \/ GetClub \/ ListClubs \/ GetMembers \/ GetCampaign \/ GetRoom \/ GetMap
    \/ TopMatchmaking \/ TopTrophies \/ GetTopMatchmaking \/ GetLeaderboard
    \/ LoadMoreLeaderboard
    \/ CampaignLeaderboards \/ LatestTotd \/ GetPlayerCotd \/ History \/ Request
    \/ Tick(PlayerInstants \cup ClubInstants \cup RankingInstants \cup DailyInstants
            \cup TrophyInstants)
    \/ RedisDown \/ RedisUp \/ SetUserAgent
Spec == Init /\ [][Next]_vars
(***************************************************************************)
(* The properties.  Each is stated over `last`, the record of the most     *)
(* recent call, over the cache, or over a step of the program.             *)
(***************************************************************************)
FetchOps ==
    {"get_player", "search_player", "to_account_id", "to_username", "get_club",
     "list_clubs", "get_members", "get_campaign", "get_room", "get_map",
     "top_matchmaking", "top_trophies", "_get_top_matchmaking", "get_leaderboard",
     "leaderboards", "latest_totd", "get_player_cotd"}
\* the checks an operation makes on its arguments before any I/O
\* (InvalidUsernameError is also how search_player reports an unknown name)
ArgumentErrors ==
    {"InvalidIDError", "ValueError", "InvalidMatchmakingGroupError", "InvalidUsernameError"}
\* the last call was to a fetch operation and went past its argument checks
FetchCall ==
    /\ last.op \in FetchOps
    /\ last.exc \notin ArgumentErrors
    /\ ~(last.op = "get_club" /\ last.args = "0")
\* the origin answered a request of the last call with HTTP 2xx and a JSON
\* object holding an "error" field
InBandError ==
    \E i \in 1..Len(last.resps) :
        /\ last.resps[i].status \in 200..299
        /\ last.resps[i].ctype = JsonType
        /\ HasError(last.resps[i].body)

\* C1: cache-aside correctness.  For player by id, top-matchmaking page and
\* club by id, with Redis reachable since the last successful origin fetch of
\* the same document: a call within the TTL of that fetch sends no origin
\* request (two calls, one request), and a call after the TTL has passed
\* sends one.
CacheAsideOps == {"get_player", "_get_top_matchmaking", "get_club"}
\* a call at the instant of the fetch is inside every TTL
WithinTtl(f, t) == t = f.at \/ f.ex = NoExpiry \/ t < f.at + f.ex
C1_CacheAside ==
    ( /\ last.op \in CacheAsideOps
      /\ last.up
      /\ last.ua # NoUserAgent
      /\ last.since # NoFetch )
    => /\ WithinTtl(last.since, last.at) => last.sent = <<>>
       /\ ~WithinTtl(last.since, last.at) => last.sent # <<>>

\* C2: cache failure isolation.  A fetch operation called while Redis is
\* unreachable ends exactly as the same call ends on a cache miss: where the
\* miss returns a value built from the origin response, the call returns that
\* value and raises nothing.
C2_CacheFailureIsolation ==
    (last.op \in FetchOps /\ ~last.up /\ last.miss.out = "returned")
    => Outcome(last) = last.miss

\* C3: an in-band service error is never cached.  No cache entry holds a
\* document with an "error" field.
C3_ErrorNeverCached ==
    \A k \in DOMAIN cache :
        IsJson(cache[k].val) => ~HasError(Loads(cache[k].val))

\* C4: an in-band service error is surfaced.  A call whose origin response is
\* HTTP 2xx with a JSON object holding an "error" field raises the service
\* error TMIOException; it returns neither an object nor a list.
C4_ErrorSurfaced ==
    (FetchCall /\ InBandError)
    => (last.out = "raised" /\ last.exc = "TMIOException")

\* C5: same logical request, same key.  The username-to-id and id-to-username
\* entries a get_player call writes after an origin fetch are written under
\* the keys to_account_id and to_username read.
C5_SameKey ==
    ( /\ last.op = "get_player"
      /\ last.up
      /\ last.out = "returned"
      /\ last.sent # <<>> )
    => /\ AccountIdKey(DisplayName(last.args)) \in WrittenKeys(last)
       /\ UsernameKey(last.args) \in WrittenKeys(last)

C7_TransportErrorContract ==
    (last.op = "request" /\ last.flag /\ last.sent # <<>>)
    => LET resp == last.resps[1]
           parses == resp.ctype = JsonType /\ resp.body.type # "text"
       IN
       /\ resp.status >= 400 =>
              /\ last.out = "raised" /\ last.exc = "ResponseCodeError"
              /\ last.status = resp.status
              /\ last.payload = IF parses THEN resp.body ELSE response_text(resp)
       /\ resp.status < 400 =>
              /\ last.exc # "ResponseCodeError"
              /\ parses => (last.out = "returned" /\ last.val = resp.body)

\* C8: the TTL policy for rankings.  Every cache write of a map or campaign
\* leaderboard, a trophy page or a matchmaking page carries a TTL between
\* 3600 and 10800 seconds.
RankingOps ==
    {"get_leaderboard", "leaderboards", "top_trophies", "top_matchmaking",
     "_get_top_matchmaking"}
C8_RankingTtl ==
    (last.op \in RankingOps /\ last.up)
    => \A w \in last.writes : w.ex >= 3600 /\ w.ex <= 10800

\* C9: latest_totd caches the document it fetched for 3600 seconds, except
\* that a fetch made inside the daily rollover window (past 17:00 and before
\* 06:00 UTC, as the function documents it) writes nothing.
RolloverWindow(t) == UtcHour(t) >= 17 \/ UtcHour(t) < 6
C9_TotdTtl ==
    (last.op = "latest_totd" /\ last.up /\ last.out = "returned" /\ last.sent # <<>>)
    => last.writes = IF RolloverWindow(last.at) THEN {}
                     ELSE {Write(LatestTotdKey, 3600)}

\* C10: self-throttling.  A page request of the player COTD history issued
\* while the x-ratelimit-remaining of the latest response is at or below 5
\* is preceded by a sleep.
C10_SelfThrottling ==
    [][ ( /\ last'.op = "get_player_cotd"
          /\ requests' > requests
          /\ hdrRemaining >= 0 /\ hdrRemaining <= 5 )
        => slept' > slept ]_vars

\* C11: no single-flight.  A call of _get_top_matchmaking that finds no
\* entry sends its own origin request, also while another task has a request
\* for the same key in flight: the requests for one key are not bounded by
\* one.
C11_NoSingleFlight ==
    [][ \A p \in Tasks :
            (tasks[p].pc # "awaiting" /\ tasks'[p].pc = "awaiting")
            => (tasks'[p].sent /\ requests' = requests + 1) ]_vars
\* both tasks found no entry under the same key and both sent a request
C11_Witness ==
    /\ tasks[1].pc = "awaiting" /\ tasks[1].sent
    /\ tasks[2].pc = "awaiting" /\ tasks[2].sent
    /\ tasks[1].key = tasks[2].key
    /\ requests >= 2

\* C12: to_account_id returns the account id of the username.  It returns
\* a player id when the id is cached, and it returns None only when the
\* origin search was made and found no player; this holds whether Redis is
\* reachable or not.
C12_AccountId ==
    (last.op = "to_account_id" /\ last.ua # NoUserAgent /\ last.out = "returned")
    => /\ last.hits # {} => last.val.type = "str"
       /\ last.val = PyNone =>
              /\ last.sent # <<>>
              /\ last.resps[1].body.type = "list"
              /\ last.resps[1].body.items = <<>>

\* C13: get_player raises InvalidIDError for an empty player id, before any
\* cache access or origin request, and also when the origin reports that no
\* player exists with the id; in the second case nothing is written to the
\* cache.
C13_InvalidId ==
    last.op = "get_player"
    => /\ last.args = "" =>
              /\ last.out = "raised" /\ last.exc = "InvalidIDError"
              /\ last.reads = {} /\ last.writes = {} /\ last.sent = <<>>
       /\ InBandError =>
              /\ last.out = "raised" /\ last.exc = "InvalidIDError"
              /\ last.writes = {}


\* C14: PlayerTrophies.history called on an object whose player id was not
\* set raises InvalidIDError, whatever the cache holds, and sends no request
\* to the origin.
HistoryWithoutId ==
    last.op = "history" /\ last.args \in {HistoryArgs(NoPlayerId, page) : page \in HistoryPages}
C14_HistoryWithoutId ==
    (HistoryWithoutId /\ last.ua # NoUserAgent)
    => /\ last.out = "raised" /\ last.exc = "InvalidIDError"
       /\ last.sent = <<>>


\* C15: for a matchmaking array of 0, 1 or 2 elements in any order, the 3v3
\* slot of the normalized pair holds the element of type id 2, or None when
\* there is none, and the Royal slot the element of type id 3, or None when
\* there is none.
SlotRouters == {"PlayerMatchmaking._from_dict", "__parse_matchmaking"}
OfType(mm_data, type_id) == {i \in 1..Len(mm_data) : mm_data[i].typeid = type_id}
Slot(mm_data, type_id) ==
    IF OfType(mm_data, type_id) = {} THEN PyNone
    ELSE parse_3v3(mm_data[CHOOSE i \in OfType(mm_data, type_id) : TRUE])
C15_SlotRouting ==
    (/\ output.fn \in SlotRouters
     /\ \A type_id \in TypeIds : Cardinality(OfType(input, type_id)) <= 1)
    => /\ output.out = "returned"
       /\ output.val[1] = Slot(input, 2)
       /\ output.val[2] = Slot(input, 3)


\* C16: for a zone document of N nested levels (N = 0..5) and a rank array,
\* the normalizer returns exactly N PlayerZone entries in chain order, the
\* i-th with the i-th rank when the array has one and with no rank when the
\* array is shorter; it does not raise whatever the depth and the length.
ReadsKey(fn) == IF fn = "_parse_zones" THEN "name" ELSE "zone"
ExpectedZones(zones, zone_positions) ==
    [i \in 1..zones.levels |->
        PlayerZone(i, IF i <= Len(zone_positions) THEN zone_positions[i] ELSE NoRank)]
C16_ZoneChain ==
    (/\ output.fn \in {"_parse_zones", "PlayerZone._parse_zones"}
     /\ input.zones.key = ReadsKey(output.fn))
    => /\ output.out = "returned"
       /\ output.val.type = "list"
       /\ output.val.items = ExpectedZones(input.zones, input.zone_positions)


\* C17: timestamp parsing accepts the five known formats: each of the five
\* renderings of an instant parses to that instant, and a text in none of
\* the formats, or a missing timestamp, gives None and no exception.  This
\* holds for _frmt_str_to_datetime and for the timestamp read by the map,
\* leaderboard and trophy normalizers.
TimestampReaders ==
    {"_frmt_str_to_datetime", "Leaderboard._from_dict", "TMMap._from_dict",
     "PlayerTrophies._from_dict"}
ParsedTimestamp ==
    IF output.fn = "_frmt_str_to_datetime" THEN output.val ELSE output.val.timestamp
C17_TimestampTolerance ==
    output.fn \in TimestampReaders
    => /\ output.out = "returned"
       /\ \A f \in 1..Len(formats) : \A d \in Instants :
              (Renders(formats[f], d) /\ input = Rendering(formats[f], d))
              => ParsedTimestamp = d
       /\ input \notin Renderings => ParsedTimestamp = PyNone
\* the part of C17 that speaks of _frmt_str_to_datetime
C17_FrmtStrToDatetime ==
    output.fn = "_frmt_str_to_datetime" => C17_TimestampTolerance


\* C18: stripping the markup is idempotent, _regex_it(_regex_it(s)) =
\* _regex_it(s) for every text s, and _regex_it(None) is None.
C18_StripIdempotent ==
    /\ output.fn = "_regex_it(_regex_it)" => output.val = regex_it(input)
    /\ (output.fn = "_regex_it" /\ input = NoText) => output.val = NoText
\* a text with a lone dollar, a doubled dollar and a colour code was
\* stripped twice: the lone dollar is what is left of the markup
C18_Witness ==
    /\ output.fn = "_regex_it(_regex_it)"
    /\ input = Text(<<"$", "x", "$", "$", "f">>)
    /\ output.val = Text(<<"$", "x", "f">>)


\* C19 as stated: a PlayerMatchmaking whose division max points equal its
\* min points is constructed without failure and has progress 0; otherwise
\* its progress is exactly (score - min) / (max - min) * 100.
\* __parse_matchmaking builds the object of slot i from element i.
BuiltFrom(i) == output.fn = "__parse_matchmaking" /\ i <= Len(input)
Abs(x) == IF x < 0 THEN -x ELSE x
C19_ExactProgress ==
    \A i \in 1..2 :
        BuiltFrom(i)
        => /\ output.out = "returned"
           /\ output.val[i].type = "PlayerMatchmaking"
           /\ IF input[i].maxpoints = input[i].minpoints
              THEN output.val[i].progress = 0
              ELSE output.val[i].progress * (input[i].maxpoints - input[i].minpoints)
                   = 10000 * (input[i].score - input[i].minpoints)
\* C19: a PlayerMatchmaking whose division max points equal its min points
\* is constructed without failure and has progress 0; otherwise its
\* progress is (score - min) / (max - min) * 100 rounded to two decimal
\* places (progress is held in hundredths).
C19_RoundedProgress ==
    \A i \in 1..2 :
        BuiltFrom(i)
        => /\ output.out = "returned"
           /\ output.val[i].type = "PlayerMatchmaking"
           /\ IF input[i].maxpoints = input[i].minpoints
              THEN output.val[i].progress = 0
              ELSE 2 * Abs(output.val[i].progress * (input[i].maxpoints - input[i].minpoints)
                           - 10000 * (input[i].score - input[i].minpoints))
                   <= Abs(input[i].maxpoints - input[i].minpoints)
\* one object with score = min = max and one whose quotient 2/3 has no
\* finite decimal expansion were built
C19_Witness ==
    /\ BuiltFrom(2)
    /\ input[1].score = 1 /\ input[1].minpoints = 1 /\ input[1].maxpoints = 1
    /\ output.val[1].progress = 0
    /\ input[2].score = 2 /\ input[2].minpoints = 0 /\ input[2].maxpoints = 3
    /\ output.val[2].progress = 6667


\* C20: for every tally of nine tier counts, score() is the sum over the
\* tiers 1..9 of count(tier) * 10^(tier-1).
RECURSIVE WeightedSum(_, _, _)
WeightedSum(trophies, tier, weight) ==
    IF tier > Len(trophies) THEN 0
    ELSE trophies[tier] * weight + WeightedSum(trophies, tier + 1, weight * 10)
C20_WeightedScore ==
    output.fn \in {"trophy.PlayerTrophies.score", "player.PlayerTrophies.score"}
    => /\ output.out = "returned"
       /\ output.val = PyInt(WeightedSum(input, 1, 1))
\* the part of C20 that speaks of trophy.py
C20_ScoreOfTrophyModule ==
    output.fn = "trophy.PlayerTrophies.score" => C20_WeightedScore


\* C21: every origin request for a map leaderboard made by get_leaderboard
\* or load_more_leaderboard asks for between 1 and 100 entries, and a call
\* with a length below 1 raises ValueError before it reads the cache, sends
\* a request or changes the offset and length of the map object.
MapOps == {"get_leaderboard", "load_more_leaderboard"}
\* the offsets the map object can have reached
Positions == {50 * k : k \in 0..(3 * (MaxRequests + 1))}
LengthBelowOne(call) ==
    \/ /\ call.op = "get_leaderboard"
       /\ \E offset \in Offsets, length \in Lengths :
              length < 1 /\ call.args = ToString(offset) \o "," \o ToString(length)
    \/ /\ call.op = "load_more_leaderboard"
       /\ \E length \in LoadMoreLengths : length < 1 /\ call.args = ToString(length)
C21_LeaderboardCap ==
    [][ (last' # last /\ last'.op \in MapOps)
        => /\ \A i \in 1..Len(last'.sent) :
                  \E offset \in Positions, length \in 1..100 :
                      last'.sent[i] = LeaderboardUrl(MapUid, offset, length)
           /\ LengthBelowOne(last')
              => /\ last'.out = "raised" /\ last'.exc = "ValueError"
                 /\ last'.reads = {} /\ last'.sent = <<>>
                 /\ tmmap' = tmmap ]_vars


\* C22: load_more_leaderboard(n) returns the n entries that follow those of
\* the call before it: the entries from o + l on after get_leaderboard(o, l)
\* has returned, the entries after those of the previous
\* load_more_leaderboard, whether the earlier calls were served from the
\* cache or from the origin, and the entries from 0 on when the leaderboard
\* of the map was never loaded.
ServedPages(call) ==
    IF call.out = "returned" /\ call.val.type = "objlist" THEN {call.val.doc.id} ELSE {}
\* where the entries of a returned call ended
EndedAt(call, position) ==
    \/ /\ call.op = "none" /\ position = 0
    \/ /\ call.op = "get_leaderboard" /\ call.out = "returned"
       /\ \E offset \in Offsets, length \in Lengths :
              /\ call.args = ToString(offset) \o "," \o ToString(length)
              /\ position = offset + Min(length, 100)
    \/ /\ call.op = "load_more_leaderboard"
       /\ \E start \in Positions, length \in 1..100 :
              /\ ServedPages(call) = {LeaderboardPage(start, length)}
              /\ position = start + length
C22_LoadMoreContinues ==
    [][ \A n \in {length \in LoadMoreLengths : length >= 1 /\ length <= 100} :
            (/\ last' # last
             /\ last'.op = "load_more_leaderboard" /\ last'.args = ToString(n)
             /\ last'.out = "returned")
            => \A position \in Positions :
                   EndedAt(last, position)
                   => ServedPages(last') = {LeaderboardPage(position, n)} ]_vars


\* C29: after any sequence of get_leaderboard and load_more_leaderboard
\* calls on a map, the document stored under the key
\* leaderboard:{uid}:{offset}:{length} is the origin's answer to the request
\* with that offset and that length.
C29_LeaderboardEntriesMatchKey ==
    \A offset \in Positions, length \in 1..100 :
        LeaderboardKey(MapUid, offset, length) \in DOMAIN cache
        => Loads(cache[LeaderboardKey(MapUid, offset, length)].val).id
           = LeaderboardPage(offset, length)


\* C23: every name and tag a normalized object exposes (player name and
\* club tag, map name, author and submitter names, leaderboard and ranking
\* player names and tags) is the markup-stripped form of the document's
\* value.
TagFields == {"player_club_tag", "player_tag", "club_tag"}
DocumentText(raw, field) == IF field \in TagFields THEN raw.tag ELSE raw.name
C23_DisplayReadyText ==
    output.fn # ""
    => \A field \in DOMAIN output.val.text :
           output.val.text[field] = regex_it(DocumentText(input, field))
\* the part of C23 that speaks of the fields that go through _regex_it
StrippedFields == {"name", "author_name", "player_club_tag", "player_tag"}
C23_StrippedFields ==
    (output.fn # "" /\ output.fn # "_parse_player")
    => \A field \in DOMAIN output.val.text \cap StrippedFields :
           output.val.text[field] = regex_it(DocumentText(input, field))


\* C24: for every medal time t >= 0 in milliseconds the string shows the
\* minutes t div 60000, the seconds (t div 1000) mod 60, which lie in 0..59,
\* and the milliseconds t mod 1000, so that the three add up to t.
\* The number a sequence of digits shows.
RECURSIVE Shown(_)
Shown(digits) ==
    IF digits = <<>> THEN 0
    ELSE 10 * Shown(SubSeq(digits, 1, Len(digits) - 1))
         + (CHOOSE d \in 0..9 : DigitChars[d + 1] = digits[Len(digits)])
IndexOf(s, c) == CHOOSE i \in 1..Len(s) : s[i] = c
ShownMinutes(s) == Shown(SubSeq(s, 1, IndexOf(s, ":") - 1))
ShownSeconds(s) == Shown(SubSeq(s, IndexOf(s, ":") + 1, IndexOf(s, ".") - 1))
ShownMilliseconds(s) == Shown(SubSeq(s, IndexOf(s, ".") + 1, Len(s)))
C24_MedalTimeString ==
    output.fn # ""
    => /\ output.out = "returned"
       /\ ShownMinutes(output.val.text) = input \div 60000
       /\ ShownSeconds(output.val.text) = (input \div 1000) % 60
       /\ ShownSeconds(output.val.text) \in 0..59
       /\ ShownMilliseconds(output.val.text) = input % 1000
       /\ 60000 * ShownMinutes(output.val.text) + 1000 * ShownSeconds(output.val.text)
              + ShownMilliseconds(output.val.text) = input
\* the part of C24 that speaks of tmmap.py and structures/medal_times.py
C24_MedalTimeStringOfTmmap ==
    output.fn = "tmmap.MedalTimes._parse_to_string" => C24_MedalTimeString


\* C25: normalization of a player document does not fail because an
\* optional field is absent (club tag, club-tag timestamp, a social or meta
\* key, no matchmaking record); an absent optional field yields its default
\* and a present one its document value, whatever other optional fields
\* are absent.
C25_OptionalFields ==
    output.fn # ""
    => /\ output.out = "returned"
       /\ output.val.club_tag = OrDefault(input.clubtag, PyNone)
       /\ output.val.last_club_tag_change = OrDefault(input.clubtagtimestamp, PyNone)
       /\ input.meta = Absent => output.val.meta = PyNone
       /\ input.meta # Absent
          => /\ output.val.meta.twitter = OrDefault(input.meta.twitter, PyNone)
             /\ output.val.meta.twitch = OrDefault(input.meta.twitch, PyNone)
             /\ output.val.meta.is_sponsor = OrDefault(input.meta.sponsor, PyBool(FALSE))
             /\ output.val.meta.sponsor_level = OrDefault(input.meta.sponsorlevel, PyInt(0))
             /\ output.val.meta.in_nadeo = OrDefault(input.meta.nadeo, PyBool(FALSE))
       /\ input.matchmaking = <<>>
          => output.val.m3v3_data = PyNone /\ output.val.royal_data = PyNone


\* The document a call found under key, as an answer of the origin.
Refetched(key) == Response(200, JsonType, Loads(cache[key].val))
ServedFromCache(call, key) == call.up /\ key \in call.hits

\* C26: a call that finds its document in the cache ends as the call that
\* fetched that document from the origin ended: official_campaigns,
\* popular_campaigns and totd(day=-1) return the same elements, none of them
\* twice, whether the document came from the cache or from the origin.
C26_HitMissEquivalence ==
    /\ (last.op = "official_campaigns" /\ ServedFromCache(last, AllCampaignsKey(0)))
       => Outcome(last) =
            Outcome(official_campaigns(EmptyCache, TRUE, "agent", last.at,
                                       Refetched(AllCampaignsKey(0))))
    /\ \A page \in CampaignPages :
         (/\ last.op = "popular_campaigns" /\ last.args = ToString(page)
          /\ ServedFromCache(last, AllCampaignsKey(page))
          /\ last.resps = <<Refetched(AllCampaignsKey(page))>>)
         => Outcome(last) =
              Outcome(popular_campaigns(EmptyCache, TRUE, last.ua, last.at, page,
                                        Refetched(AllCampaignsKey(page))))
    /\ \A year \in TotdYears, month \in TotdMonths :
         (/\ last.op = "totd" /\ last.args = TotdKey(year, month, -1)
          /\ ServedFromCache(last, TotdKey(year, month, -1)))
         => Outcome(last) =
              Outcome(totd(EmptyCache, TRUE, "agent", last.at, Today, year, month, -1,
                           last.flag, Refetched(TotdKey(year, month, -1)),
                           Refetched(TotdKey(year, month, -1))))


SessionOps == {"_get_history", "history", "totd"}
\* C27: when a fetch operation completes, the HTTP client session it opened
\* is closed, whether it returned, the origin answered with an HTTP error
\* (ResponseCodeError), the service reported an error in band, or a check
\* failed after the session was opened.
C27_SessionsClosed == last.op \in SessionOps => last.open = 0

\* The part of it that holds: the session of a call of _get_history or
\* history that got an answer from its request is closed, also when the
\* answer is an error of the service reported in band.
C27_ClosedAfterAnswer ==
    (/\ last.op \in {"_get_history", "history"}
     /\ last.sent # <<>>
     /\ last.exc \notin RequestErrors)
    => last.open = 0


\* C28: with the cache reachable, history(page) called on the object of a
\* player returns the trophy gains of that player, whatever calls of history
\* on other players came before, and never the document fetched for another
\* player.
C28_HistoryPerPlayer ==
    \A player_id \in TrophyOwners \ {NoPlayerId}, page \in HistoryPages :
        (/\ last.op = "history" /\ last.args = HistoryArgs(player_id, page)
         /\ last.up /\ last.out = "returned")
        => last.val = Gains(OkDoc("trophy_history", HistoryArgs(player_id, page)))


\* The track of the day changes at 18:00 UTC.
RolledOver(today) == today.hour >= 18
PreviousDay(today) ==
    IF today.day > 1 THEN Date(today.year, today.month, today.day - 1)
    ELSE IF today.month > 1
         THEN Date(today.year, today.month - 1, DaysInMonth(today.year, today.month - 1))
         ELSE Date(today.year - 1, 12, 31)
IsCalendarDate(date) ==
    date.type = "date" /\ date.month \in 1..12
    /\ date.day \in 1..DaysInMonth(date.year, date.month)

\* C30: for every UTC date and time, TOTD.latest_totd computes a date
\* without failing: today's date once the track of the day has changed,
\* the previous calendar day before that, which on the 1st of a month is the
\* last day of the month before.
C30_LatestTotdDate ==
    output.fn = "TOTD.latest_totd"
    => /\ output.out = "returned"
       /\ IsCalendarDate(output.val)
       /\ output.val = IF RolledOver(input)
                       THEN Date(input.year, input.month, input.day)
                       ELSE PreviousDay(input)

\* The part of it that holds: off the 1st of a month and off the first
\* minute of an hour, the date is today's from 18:00 UTC on and
\* yesterday's before.
C30_LatestTotdOffTheFirst ==
    (output.fn = "TOTD.latest_totd" /\ input.day > 1 /\ input.minute > 0)
    => /\ output.out = "returned"
       /\ IsCalendarDate(output.val)
       /\ output.val = IF RolledOver(input)
                       THEN Date(input.year, input.month, input.day)
                       ELSE PreviousDay(input)

====
